---------------------------- MODULE Spec2Model ----------------------------
(***************************************************************************)
(* A model of the scones code generator (scones_macros/src/lib.rs) and of  *)
(* the code it generates (constructors, type-state builders built on       *)
(* scones::BuilderFieldContainer).                                         *)
(*                                                                         *)
(* Token streams are modelled by their structure: an identifier is a       *)
(* string, a type is a string, an initializer expression is a small term   *)
(* (a literal, a variable reference, unwrap_or on a variable).             *)
(***************************************************************************)
EXTENDS Integers, Sequences, FiniteSets, TLC

VARIABLES
    pc,           \* position of the modelled run
    is_tuple,     \* the structure is a tuple struct (fields named field_N)
    fields,       \* field_infos: Seq of FieldInfo
    keyword_idents, \* the build's identifier parser accepts the keyword `Self` as an Ident
    hash_seed,    \* the keys of the compiler process's hash containers (RandomState)
    cname,        \* ConstructorInfo.name
    cparams,      \* ConstructorInfo.params
    creturn,      \* ConstructorInfo.return_semantics
    cgen,         \* result of make_constructor_impl
    cargs,        \* argument values of a call of the generated constructor
    cinstance,    \* value returned by that call
    bname,        \* BuilderInfo.name
    bparams,      \* BuilderInfo.params
    bgen,         \* result of make_builder_impl
    builder,      \* the builder value a caller holds, with its type's status arguments
    given,        \* history: the last value passed to each setter since new()
    built,        \* value returned by build()
    struct_def,   \* the structure under expansion: ident, shape, attrs, fields
    declared,     \* history: the structure as written
    invocations,  \* history: the arguments of each generate_items__ invocation so far
    gout          \* output of the last generate_items__ invocation

structVars == <<is_tuple, fields, keyword_idents, hash_seed>>
ctorVars == <<cname, cparams, creturn, cgen, cargs, cinstance>>
builderVars == <<bname, bparams, bgen, builder, given, built>>
itemVars == <<struct_def, declared, invocations, gout>>
vars == <<pc, structVars, ctorVars, builderVars, itemVars>>

-----------------------------------------------------------------------------
(* Bounds of the model *)

MaxFields == 2
MaxParams == 3
MaxBuilderParams == 2
MaxAttrs == 4
MaxDirectives == 2
MaxValueAttrs == 2

-----------------------------------------------------------------------------
(* Option<T>, Vec<T> helpers *)

None == <<>>
Some(v) == <<v>>
IsSome(o) == o # None
Unwrap(o) == o[1]

\* Vec::remove(index) with a 1-based index
RemoveAt(s, i) == SubSeq(s, 1, i - 1) \o SubSeq(s, i + 1, Len(s))

\* Vec::insert(index, element) with the 0-based index of the code
InsertAt(s, index, e) == SubSeq(s, 1, index) \o <<e>> \o SubSeq(s, index + 1, Len(s))

\* 1-based position of the first element whose ident is name, 0 when none
RECURSIVE IndexOfFrom(_, _, _)
IndexOfFrom(s, name, i) ==
    IF i > Len(s) THEN 0
    ELSE IF s[i].ident = name THEN i
    ELSE IndexOfFrom(s, name, i + 1)
IndexOfIdent(s, name) == IndexOfFrom(s, name, 1)

Range(s) == {s[i] : i \in DOMAIN s}
Distinct(s) == \A i, j \in DOMAIN s : s[i] = s[j] => i = j
Count(s, name) == Cardinality({i \in DOMAIN s : s[i].name = name})

-----------------------------------------------------------------------------
(* Initializer expressions and runtime values *)

\* The declared types of the fields, by position
FieldTypes == <<"i32", "u8", "i64", "u16">>

Values == {1, 2}

\* An integer literal, a variable, and `n.unwrap_or(d)` with d a literal
Lit(v) == [k |-> "lit", v |-> v]
Var(n) == [k |-> "var", n |-> n]
UnwrapOr(n, d) == [k |-> "unwrap_or", n |-> n, v |-> d]

\* `n.parse()?` on a text parameter n: the parsed number, or an early return
\* of the failure arm when the text is no number
Try(n) == [k |-> "try", n |-> n]

\* The argument that stands for a text that is no number
Unparsable == 0

OptionOf(ty) == "::std::option::Option<" \o ty \o ">"

\* The type rustc gives an expression where tenv maps the names in scope to
\* their types: "int" for a literal (any integer type), "error" when ill-typed
TypeOf(e, tenv) ==
    IF e.k = "lit" THEN "int"
    ELSE IF e.n \notin DOMAIN tenv THEN "error"
    ELSE IF e.k = "var" THEN tenv[e.n]
    ELSE IF e.k = "try" THEN (IF tenv[e.n] = "&str" THEN "int" ELSE "error")
    ELSE IF \E t \in Range(FieldTypes) : tenv[e.n] = OptionOf(t)
         THEN CHOOSE t \in Range(FieldTypes) : tenv[e.n] = OptionOf(t)
    ELSE "error"

\* An expression of type t may initialize a place of type ty
Fits(t, ty) == t = ty \/ t = "int"

\* Evaluation of an expression where env maps the names in scope to values
Eval(e, env) ==
    IF e.k = "lit" THEN e.v
    ELSE IF e.k = "var" \/ e.k = "try" THEN env[e.n]
    ELSE IF env[e.n] = None THEN e.v ELSE Unwrap(env[e.n])

-----------------------------------------------------------------------------
(* The field model *)

NamedIdents == <<"a", "b", "c", "d">>
TupleIdents == <<"field_0", "field_1", "field_2", "field_3">>

\* generate_items__: the declared name, or field_{index} for a tuple struct
FieldIdent(tuple, index) == IF tuple THEN TupleIdents[index] ELSE NamedIdents[index]

ItemNames == {"new", "other"}

FieldInfo(ident, ty, custom_init, default_init) ==
    [ident |-> ident, ty |-> ty, custom_init |-> custom_init, default_init |-> default_init]


\* The pool as it would come out of a hash container: its order follows the
\* keys of the process
RemainingFieldsHashed(item_name, fs) ==
    LET pool == SelectSeq(fs, LAMBDA e : item_name \notin DOMAIN e.custom_init /\ e.default_init = None)
    IN IF hash_seed = 0 THEN pool ELSE [i \in DOMAIN pool |-> pool[Len(pool) + 1 - i]]

\* The "still needs a parameter" pool of an item: the fields with no initializer
\* keyed to the item's name and no default initializer, in declaration order
RemainingFields(item_name, fs) ==
    SelectSeq(fs, LAMBDA e : item_name \notin DOMAIN e.custom_init /\ e.default_init = None)

-----------------------------------------------------------------------------
(* Constructor synthesis *)

CField(name) == [kind |-> "Field", name |-> name]
CCustom(name, ty) == [kind |-> "Custom", name |-> name, ty |-> ty]
Ellipses == [kind |-> "Ellipses"]

\* One generated parameter, the tokens `name: ty`
ParamImpl(name, ty) == [name |-> name, ty |-> ty]

\* The start of the loop with the insertion index one beyond the written list
ArgsStartBeyond(constructor_name, param_info, fs) ==
    [param_impls |-> <<>>,
     remaining_fields |-> RemainingFields(constructor_name, fs),
     remaining_fields_insertion_index |-> Len(param_info) + 1,
     err |-> None]

ArgsStart(constructor_name, param_info, fs) ==
    [param_impls |-> <<>>,
     remaining_fields |-> RemainingFields(constructor_name, fs),
     remaining_fields_insertion_index |-> Len(param_info),
     err |-> None]

\* The loop body without the second search: a field outside the pool is refused
ArgsParamPoolOnly(st, param, fs) ==
    IF param.kind = "Field" THEN
        LET i == IndexOfIdent(st.remaining_fields, param.name)
        IN IF i > 0 THEN
               [st EXCEPT !.remaining_fields = RemoveAt(@, i),
                          !.param_impls = Append(@, ParamImpl(st.remaining_fields[i].ident,
                                                              st.remaining_fields[i].ty))]
           ELSE [st EXCEPT !.err = Some(param.name)]
    ELSE IF param.kind = "Custom" THEN
        [st EXCEPT !.param_impls = Append(@, ParamImpl(param.name, param.ty))]
    ELSE [st EXCEPT !.remaining_fields_insertion_index = Len(st.param_impls)]

\* The body of the loop over param_info
ArgsParam(st, param, fs) ==
    IF param.kind = "Field" THEN
        LET i == IndexOfIdent(st.remaining_fields, param.name)
            j == IndexOfIdent(fs, param.name)
        IN IF i > 0 THEN
               [st EXCEPT !.remaining_fields = RemoveAt(@, i),
                          !.param_impls = Append(@, ParamImpl(st.remaining_fields[i].ident,
                                                              st.remaining_fields[i].ty))]
           ELSE IF j > 0 THEN
               [st EXCEPT !.param_impls = Append(@, ParamImpl(fs[j].ident, fs[j].ty))]
           ELSE [st EXCEPT !.err = Some(param.name)]
    ELSE IF param.kind = "Custom" THEN
        [st EXCEPT !.param_impls = Append(@, ParamImpl(param.name, param.ty))]
    ELSE [st EXCEPT !.remaining_fields_insertion_index = Len(st.param_impls)]

RECURSIVE ArgsLoop(_, _, _, _)
ArgsLoop(st, param_info, fs, i) ==
    IF i > Len(param_info) \/ st.err # None THEN st
    ELSE ArgsLoop(ArgsParam(st, param_info[i], fs), param_info, fs, i + 1)

\* The final loop: the remaining fields go in at the insertion index, which
\* advances by one per field. Vec::insert panics on an index beyond the length.
\* InsertRemaining without the `+= 1` on the insertion index
RECURSIVE InsertRemainingNoAdvance(_, _, _)
InsertRemainingNoAdvance(param_impls, remaining, index) ==
    IF remaining = <<>> THEN [status |-> "ok", params |-> param_impls]
    ELSE IF index > Len(param_impls) THEN [status |-> "panic", params |-> param_impls]
    ELSE InsertRemainingNoAdvance(
             InsertAt(param_impls, index, ParamImpl(remaining[1].ident, remaining[1].ty)),
             Tail(remaining), index)

RECURSIVE InsertRemaining(_, _, _)
InsertRemaining(param_impls, remaining, index) ==
    IF remaining = <<>> THEN [status |-> "ok", params |-> param_impls]
    ELSE IF index > Len(param_impls) THEN [status |-> "panic", params |-> param_impls]
    ELSE InsertRemaining(InsertAt(param_impls, index, ParamImpl(remaining[1].ident, remaining[1].ty)),
                         Tail(remaining), index + 1)

make_constructor_args(constructor_name, param_info, fs) ==
    LET st == ArgsLoop(ArgsStart(constructor_name, param_info, fs), param_info, fs, 1)
    IN IF st.err # None
       THEN [status |-> "err", at |-> Unwrap(st.err), params |-> <<>>]
       ELSE InsertRemaining(st.param_impls, st.remaining_fields,
                            st.remaining_fields_insertion_index)

\* Initializer with the default initializer taken before the keyed one
InitializerDefaultFirst(item_name, field) ==
    IF field.default_init # None THEN Unwrap(field.default_init)
    ELSE IF item_name \in DOMAIN field.custom_init THEN field.custom_init[item_name]
    ELSE Var(field.ident)

\* custom_init.get(name).or_else(default_init).unwrap_or(ident)
Initializer(item_name, field) ==
    IF item_name \in DOMAIN field.custom_init THEN field.custom_init[item_name]
    ELSE IF field.default_init # None THEN Unwrap(field.default_init)
    ELSE Var(field.ident)

\* One entry of Self { .. } or Self ( .. ): `ident: init`, or `init` for a tuple
CtorInitializers(tuple, name, fs) ==
    [i \in DOMAIN fs |->
        [label |-> IF tuple THEN None ELSE Some(fs[i].ident),
         init |-> Initializer(name, fs[i])]]

make_constructor_impl(tuple, name, params, fs) ==
    LET args == make_constructor_args(name, params, fs)
    IN IF args.status # "ok" THEN args
       ELSE [status |-> "ok", name |-> name, params |-> args.params,
             initializers |-> CtorInitializers(tuple, name, fs)]

\* The types of the names in scope in the generated function body
CtorTypeEnv(gen) ==
    [n \in {gen.params[p].name : p \in DOMAIN gen.params} |->
        gen.params[CHOOSE p \in DOMAIN gen.params : gen.params[p].name = n].ty]

\* rustc accepts the generated function: parameter names are bound once and
\* every initializer is well typed for its field
CtorCompiles(gen, fs) ==
    /\ gen.status = "ok"
    /\ Distinct([i \in DOMAIN gen.params |-> gen.params[i].name])
    /\ \A i \in DOMAIN gen.initializers :
          Fits(TypeOf(gen.initializers[i].init, CtorTypeEnv(gen)), fs[i].ty)

\* `?` is accepted only in a function that returns a Result
QuestionMarkCompiles(gen, return_semantics) ==
    \A i \in DOMAIN gen.initializers :
        gen.initializers[i].init.k = "try" => return_semantics = "Result"

\* The environment of a call: each parameter name bound to its argument
CallEnv(gen, args) ==
    [n \in {gen.params[p].name : p \in DOMAIN gen.params} |->
        args[CHOOSE p \in DOMAIN gen.params : gen.params[p].name = n]]

\* The value the generated body assembles, field by field in declaration order
CtorBody(gen, args) ==
    [i \in DOMAIN gen.initializers |-> Eval(gen.initializers[i].init, CallEnv(gen, args))]


\* The initializer `n.parse()?` returns early
Fails(e, env) == e.k = "try" /\ env[e.n] = Unparsable

\* The initializers evaluated one after the other, every one of them evaluated
\* even after a failure
RECURSIVE EvalFieldsAll(_, _, _, _)
EvalFieldsAll(inits, env, i, acc) ==
    IF i > Len(inits)
    THEN IF \E j \in DOMAIN inits : Fails(inits[j].init, env)
         THEN [arm |-> "Err", value |-> <<>>, evaluated |-> Len(inits)]
         ELSE [arm |-> "Ok", value |-> acc, evaluated |-> Len(inits)]
    ELSE EvalFieldsAll(inits, env, i + 1, Append(acc, Eval(inits[i].init, env)))

\* `Ok(Self { .. })`: the initializers are evaluated in the order written, a
\* failing `?` returns the failure arm at once, the value is wrapped at the end
RECURSIVE EvalFields(_, _, _, _)
EvalFields(inits, env, i, acc) ==
    IF i > Len(inits) THEN [arm |-> "Ok", value |-> acc, evaluated |-> Len(inits)]
    ELSE IF Fails(inits[i].init, env) THEN [arm |-> "Err", value |-> <<>>, evaluated |-> i]
    ELSE EvalFields(inits, env, i + 1, Append(acc, Eval(inits[i].init, env)))

\* The body by return semantics: the assembled value, or the Result of assembling it
ConstructorBody(return_semantics, gen, args) ==
    IF return_semantics = "Selff" THEN CtorBody(gen, args)
    ELSE EvalFields(gen.initializers, CallEnv(gen, args), 1, <<>>)

\* The values a caller may pass for a parameter of type ty
ArgValues(ty) == IF ty = "&str" THEN Values \cup {Unparsable} ELSE Values

-----------------------------------------------------------------------------
(* Builder synthesis *)

BField(name, overrid) == [kind |-> "Field", name |-> name, overrid |-> overrid]
BCustom(name, ty, optional) == [kind |-> "Custom", name |-> name, ty |-> ty, optional |-> optional]

Required(name, ty, status_param) ==
    [kind |-> "Required", name |-> name, ty |-> ty, status_param |-> status_param]
Optional(name, ty) == [kind |-> "Optional", name |-> name, ty |-> ty]
\* A `field?` parameter classified as a custom Option parameter is
OverrideAsOptional(name, ty) == [kind |-> "Optional", name |-> name, ty |-> ty]
Override(name, ty) == [kind |-> "Override", name |-> name, ty |-> ty]

\* Inflector's to_pascal_case on the identifiers of the model
ToPascalCase(id) ==
    CASE id = "a" -> "A" [] id = "b" -> "B" [] id = "c" -> "C" [] id = "d" -> "D"
      [] id = "x" -> "X" [] id = "y" -> "Y" [] id = "z" -> "Z"
      [] id = "field_0" -> "Field0" [] id = "field_1" -> "Field1"
      [] id = "field_2" -> "Field2" [] id = "field_3" -> "Field3"

\* format_ident!("{}Status__", name.to_pascal_case())
StatusParam(id) == ToPascalCase(id) \o "Status__"

FieldsStart(builder_name, fs) ==
    [status_params |-> <<>>, builder_fields |-> <<>>,
     remaining_fields |-> RemainingFields(builder_name, fs), err |-> None]

\* The body of the loop over the builder's params
FieldsParam(st, param, fs) ==
    IF param.kind = "Field" THEN
        LET i == IndexOfIdent(st.remaining_fields, param.name)
            j == IndexOfIdent(fs, param.name)
            found_field == IF i > 0 THEN Some(st.remaining_fields[i])
                           ELSE IF j > 0 THEN Some(fs[j]) ELSE None
            rest == IF i > 0 THEN RemoveAt(st.remaining_fields, i) ELSE st.remaining_fields
        IN IF found_field = None THEN [st EXCEPT !.err = Some(param.name)]
           ELSE IF param.overrid THEN
               [st EXCEPT !.remaining_fields = rest,
                          !.builder_fields = Append(@, Override(param.name, Unwrap(found_field).ty))]
           ELSE
               [st EXCEPT !.remaining_fields = rest,
                          !.status_params = Append(@, StatusParam(Unwrap(found_field).ident)),
                          !.builder_fields = Append(@, Required(param.name, Unwrap(found_field).ty,
                                                       StatusParam(Unwrap(found_field).ident)))]
    ELSE IF param.optional THEN
        [st EXCEPT !.builder_fields = Append(@, Optional(param.name, param.ty))]
    ELSE
        [st EXCEPT !.status_params = Append(@, StatusParam(param.name)),
                   !.builder_fields = Append(@, Required(param.name, param.ty,
                                                         StatusParam(param.name)))]

RECURSIVE FieldsLoop(_, _, _, _)
FieldsLoop(st, params, fs, i) ==
    IF i > Len(params) \/ st.err # None THEN st
    ELSE FieldsLoop(FieldsParam(st, params[i], fs), params, fs, i + 1)

\* The final loop with the markers of the remaining fields put in front
RECURSIVE FieldsRemainingFront(_, _)
FieldsRemainingFront(st, remaining) ==
    IF remaining = <<>> THEN st
    ELSE FieldsRemainingFront(
            [st EXCEPT !.status_params = <<StatusParam(remaining[1].ident)>> \o @,
                       !.builder_fields = Append(@, Required(remaining[1].ident, remaining[1].ty,
                                                             StatusParam(remaining[1].ident)))],
            Tail(remaining))

\* The final loop: every field left in the pool becomes Required
RECURSIVE FieldsRemaining(_, _)
FieldsRemaining(st, remaining) ==
    IF remaining = <<>> THEN st
    ELSE FieldsRemaining(
            [st EXCEPT !.status_params = Append(@, StatusParam(remaining[1].ident)),
                       !.builder_fields = Append(@, Required(remaining[1].ident, remaining[1].ty,
                                                             StatusParam(remaining[1].ident)))],
            Tail(remaining))

make_builder_fields(builder_name, params, fs) ==
    LET st == FieldsLoop(FieldsStart(builder_name, fs), params, fs, 1)
    IN IF st.err # None THEN [status |-> "err", at |-> Unwrap(st.err)]
       ELSE LET done == FieldsRemaining(st, st.remaining_fields)
            IN [status |-> "ok", status_params |-> done.status_params,
                builder_fields |-> done.builder_fields]

\* all_generic_params: the structure's own generic parameters, then one
\* parameter per status parameter
AllGenericParams(generic_params, status_params) == generic_params \o status_params

\* SpAfterMut fixing every status parameter to Present
SpAfterMutAll(status_params, status_param) ==
    [i \in DOMAIN status_params |-> "Present"]

\* The generic arguments of the type a Required setter returns: the field's
\* own status parameter becomes Present, the others stay as they are
SpAfterMut(status_params, status_param) ==
    [i \in DOMAIN status_params |->
        IF status_params[i] = status_param THEN "Present" ELSE status_params[i]]

\* MutatorFields storing the value in every Required field
MutatorFieldsAll(all_fields, name) ==
    [i \in DOMAIN all_fields |->
        IF all_fields[i].kind = "Required" THEN "present(value)" ELSE "self"]

\* The fields of the builder a Required setter returns: `name: present(value)`
\* for the field being set, `other_name: self.other_name` for every other one
MutatorFields(all_fields, name) ==
    [i \in DOMAIN all_fields |->
        IF all_fields[i].name = name THEN "present(value)" ELSE "self"]

\* The generated setter of one builder field
FieldMutator(field, status_params, all_fields) ==
    IF field.kind = "Required"
    THEN [name |-> field.name, kind |-> "Required",
          new_generic_args |-> SpAfterMut(status_params, field.status_param),
          mutator_fields |-> MutatorFields(all_fields, field.name)]
    ELSE [name |-> field.name, kind |-> field.kind]

\* `let name = self.name.into_value();` or `let name = self.name;`
ConstructorSetup(field) ==
    [name |-> field.name, into_value |-> field.kind = "Required"]

\* One entry of the structure literal of build(): `init`, or
\* `ident.unwrap_or(init)` when the field is an Override field of the builder
BuilderInitializers(tuple, str_name, fs, override_fields) ==
    [i \in DOMAIN fs |->
        [label |-> IF tuple THEN None ELSE Some(fs[i].ident),
         ident |-> fs[i].ident,
         init |-> Initializer(str_name, fs[i]),
         unwrap_or |-> fs[i].ident \in override_fields]]

make_builder_impl(tuple, builder_name, params, fs) ==
    LET bf == make_builder_fields(builder_name, params, fs)
    IN IF bf.status # "ok" THEN bf
       ELSE LET all_fields == bf.builder_fields
                override_fields ==
                    {all_fields[i].name : i \in {j \in DOMAIN all_fields : all_fields[j].kind = "Override"}}
            IN [status |-> "ok",
                name |-> builder_name,
                status_params |-> bf.status_params,
                builder_fields |-> all_fields,
                field_mutators |-> [i \in DOMAIN all_fields |->
                                       FieldMutator(all_fields[i], bf.status_params, all_fields)],
                constructor_setup |-> [i \in DOMAIN all_fields |-> ConstructorSetup(all_fields[i])],
                initializers |-> BuilderInitializers(tuple, builder_name, fs, override_fields),
                all_missing_args |-> [i \in DOMAIN bf.status_params |-> "Missing"],
                all_present_args |-> [i \in DOMAIN bf.status_params |-> "Present"]]

-----------------------------------------------------------------------------
(* The generated builder at run time *)

\* scones::BuilderFieldContainer<FieldType, IsPresent>
ContainerMissing == [data |-> None, marker_ |-> "Missing"]
\* A container marked Present that holds nothing
ContainerPresentEmpty(value) == [data |-> None, marker_ |-> "Present"]
ContainerPresent(value) == [data |-> Some(value), marker_ |-> "Present"]
ContainerSet(self, value) == [data |-> Some(value), marker_ |-> "Present"]
\* into_value is self.data.unwrap(): a panic on an empty container
ContainerIntoValuePanics(self) == self.data = None
ContainerIntoValue(self) == Unwrap(self.data)

\* The types of the names build() binds with `let`
BuilderTypeEnv(gen) ==
    [n \in {gen.builder_fields[i].name : i \in DOMAIN gen.builder_fields} |->
        LET f == gen.builder_fields[CHOOSE i \in DOMAIN gen.builder_fields :
                                        gen.builder_fields[i].name = n]
        IN IF f.kind = "Required" THEN f.ty ELSE OptionOf(f.ty)]

\* rustc accepts the generated builder: its fields (and setters) have distinct
\* names, its generic parameters have distinct names, and every entry of the
\* structure literal of build() is well typed for its field
BuilderCompiles(gen, fs) ==
    /\ gen.status = "ok"
    /\ Distinct([i \in DOMAIN gen.builder_fields |-> gen.builder_fields[i].name])
    /\ Distinct(gen.status_params)
    /\ \A i \in DOMAIN gen.initializers :
          Fits(TypeOf(gen.initializers[i].init, BuilderTypeEnv(gen)), fs[i].ty)

\* Builder::new(): every Required slot missing(), every other slot None, in
\* the type whose status arguments are all Missing
BuilderNewValue(gen) ==
    [targs |-> gen.all_missing_args,
     slots |-> [i \in DOMAIN gen.builder_fields |->
                   IF gen.builder_fields[i].kind = "Required" THEN ContainerMissing ELSE None]]

\* A setter that keeps the value an Optional or Override slot already holds
ApplySetterKeepFirst(gen, b, k, value) ==
    LET mut == gen.field_mutators[k]
    IN IF mut.kind = "Required"
       THEN [targs |-> [i \in DOMAIN b.targs |->
                           IF mut.new_generic_args[i] = "Present" THEN "Present" ELSE b.targs[i]],
             slots |-> [i \in DOMAIN b.slots |->
                           IF mut.mutator_fields[i] = "present(value)"
                           THEN ContainerPresent(value) ELSE b.slots[i]]]
       ELSE IF b.slots[k] = None THEN [b EXCEPT !.slots[k] = Some(value)] ELSE b

\* The builder the setter of field k returns for self = b and the value given
ApplySetter(gen, b, k, value) ==
    LET mut == gen.field_mutators[k]
    IN IF mut.kind = "Required"
       THEN [targs |-> [i \in DOMAIN b.targs |->
                           IF mut.new_generic_args[i] = "Present" THEN "Present" ELSE b.targs[i]],
             slots |-> [i \in DOMAIN b.slots |->
                           IF mut.mutator_fields[i] = "present(value)"
                           THEN ContainerPresent(value) ELSE b.slots[i]]]
       ELSE [b EXCEPT !.slots[k] = Some(value)]

\* build() exists on the type whose status arguments are all Present
BuildAvailable(gen, b) == b.targs = gen.all_present_args

\* The `let` bindings of build()
BuildEnv(gen, b) ==
    [n \in {gen.constructor_setup[i].name : i \in DOMAIN gen.constructor_setup} |->
        LET i == CHOOSE j \in DOMAIN gen.constructor_setup : gen.constructor_setup[j].name = n
        IN IF gen.constructor_setup[i].into_value
           THEN ContainerIntoValue(b.slots[i]) ELSE b.slots[i]]

\* unwrap_or with its receiver and argument exchanged
OverrideValueSwapped(opt, init_value) == init_value

\* `ident.unwrap_or(init)`
OverrideValue(opt, init_value) == IF opt = None THEN init_value ELSE Unwrap(opt)

\* build() panics when one of its into_value calls unwraps None
BuildPanics(gen, b) ==
    \E i \in DOMAIN gen.constructor_setup :
        gen.constructor_setup[i].into_value /\ ContainerIntoValuePanics(b.slots[i])

\* The outcome of build(): the assembled value, field by field in declaration
\* order, unless it panicked
BuildBody(gen, b) ==
    IF BuildPanics(gen, b) THEN [status |-> "panic", value |-> <<>>]
    ELSE LET env == BuildEnv(gen, b)
         IN [status |-> "ok",
             value |-> [i \in DOMAIN gen.initializers |->
                          IF gen.initializers[i].unwrap_or
                          THEN OverrideValue(env[gen.initializers[i].ident],
                                             Eval(gen.initializers[i].init, env))
                          ELSE Eval(gen.initializers[i].init, env)]]

-----------------------------------------------------------------------------
(* Directive parsing *)

\* The text of a directive: `[vis] [name] [(params)] [-> ret]`. A parameter is
\* one of `..`, `ident`, `ident?`, `ident: ty`, `ident: Option<ty>`.
DirectiveText(vis, name, params, ret) ==
    [vis |-> vis, name |-> name, params |-> params, ret |-> ret]
ParamText(tok, name, ty) == [tok |-> tok, name |-> name, ty |-> ty]

\* ConstructorParam::parse, then the `,` or end parse_terminated expects
ConstructorParamParse(pt) ==
    IF pt.tok = "dots" THEN [status |-> "ok", param |-> Ellipses]
    ELSE IF pt.tok = "ident" THEN [status |-> "ok", param |-> CField(pt.name)]
    ELSE IF pt.tok = "typed" THEN [status |-> "ok", param |-> CCustom(pt.name, pt.ty)]
    ELSE IF pt.tok = "option_typed"
         THEN [status |-> "ok", param |-> CCustom(pt.name, "Option<" \o pt.ty \o ">")]
    ELSE [status |-> "err"]

\* BuilderParam::parse, then the `,` or end parse_terminated expects
BuilderParamParse(pt) ==
    IF pt.tok = "ident" THEN [status |-> "ok", param |-> BField(pt.name, FALSE)]
    ELSE IF pt.tok = "ident?" THEN [status |-> "ok", param |-> BField(pt.name, TRUE)]
    ELSE IF pt.tok = "typed" THEN [status |-> "ok", param |-> BCustom(pt.name, pt.ty, FALSE)]
    ELSE IF pt.tok = "option_typed" THEN [status |-> "ok", param |-> BCustom(pt.name, pt.ty, TRUE)]
    ELSE [status |-> "err"]

\* A written return type: its first word, its generic arguments, what follows
RetText(head, args, tail) == [head |-> head, args |-> args, tail |-> tail]

\* The type as written
TypeText(r) ==
    r.head
    \o (IF Len(r.args) = 0 THEN ""
        ELSE IF Len(r.args) = 1 THEN "<" \o r.args[1] \o ">"
        ELSE "<" \o r.args[1] \o ", " \o r.args[2] \o ">")
    \o r.tail

Keywords == {"Self", "self", "super", "crate"}
Punctuation == {"&", "(", "["}

\* `let type_name: Ident = fork.parse()?`: the first token must be an
\* identifier; whether a keyword is one is the identifier parser's choice
IdentParses(word) ==
    /\ word \notin Punctuation
    /\ word \in Keywords => keyword_idents

\* The return shape: absent, or decided by the first identifier of the type.
\* For a constructor the Result type is rewritten, for a builder only the
\* error type is kept.
ReturnParse(ret, constructor) ==
    IF ret = None THEN [status |-> "ok", custom_return_type |-> None, return_semantics |-> "Selff"]
    ELSE IF ~IdentParses(Unwrap(ret).head)
         THEN [status |-> "err", custom_return_type |-> None, return_semantics |-> "Selff"]
    ELSE IF Unwrap(ret).head = "Self"
         THEN [status |-> "ok", custom_return_type |-> Some(TypeText(Unwrap(ret))),
               return_semantics |-> "Selff"]
    ELSE IF Unwrap(ret).head = "Result"
         THEN IF Len(Unwrap(ret).args) = 2 /\ Unwrap(ret).args[1] = "Self"
              THEN [status |-> "ok",
                    custom_return_type |->
                        Some(IF constructor
                             THEN "::core::result::Result<Self, " \o Unwrap(ret).args[2] \o ">"
                             ELSE Unwrap(ret).args[2]),
                    return_semantics |-> "Result"]
              ELSE [status |-> "err", custom_return_type |-> None, return_semantics |-> "Selff"]
    ELSE [status |-> "err", custom_return_type |-> None, return_semantics |-> "Selff"]

\* The visibility with `pub` wherever none was written
DirectiveVisDefaultPub(text) == IF text.vis = "" THEN "pub" ELSE text.vis

\* The visibility exactly as written
DirectiveVisWritten(text) == text.vis

\* The visibility is parsed first; when no name follows it is replaced by `pub`
DirectiveVis(text) == IF text.name = None THEN "pub" ELSE text.vis

ConstructorInfoParse(text) ==
    LET ps == IF text.params = None THEN <<>>
              ELSE [i \in DOMAIN Unwrap(text.params) |-> ConstructorParamParse(Unwrap(text.params)[i])]
        ret == ReturnParse(text.ret, TRUE)
    IN IF (\E i \in DOMAIN ps : ps[i].status = "err") \/ ret.status = "err"
       THEN [status |-> "err"]
       ELSE [status |-> "ok",
             vis |-> DirectiveVis(text),
             name |-> IF text.name = None THEN "new" ELSE Unwrap(text.name),
             params |-> IF text.params = None THEN <<Ellipses>>
                        ELSE [i \in DOMAIN ps |-> ps[i].param],
             custom_return_type |-> ret.custom_return_type,
             return_semantics |-> ret.return_semantics]

PartialBuilderInfoParse(text) ==
    LET ps == IF text.params = None THEN <<>>
              ELSE [i \in DOMAIN Unwrap(text.params) |-> BuilderParamParse(Unwrap(text.params)[i])]
        ret == ReturnParse(text.ret, FALSE)
    IN IF (\E i \in DOMAIN ps : ps[i].status = "err") \/ ret.status = "err"
       THEN [status |-> "err"]
       ELSE [status |-> "ok",
             vis |-> DirectiveVis(text),
             name |-> text.name,
             params |-> [i \in DOMAIN ps |-> ps[i].param],
             custom_return_type |-> ret.custom_return_type,
             return_semantics |-> ret.return_semantics]

\* PartialBuilderInfo::complete: the name defaults to <StructName>Builder
Complete(partial, struct_name, documentation) ==
    [vis |-> partial.vis,
     name |-> IF partial.name = None THEN struct_name \o "Builder" ELSE Unwrap(partial.name),
     params |-> partial.params,
     custom_return_type |-> partial.custom_return_type,
     return_semantics |-> partial.return_semantics,
     documentation |-> documentation]

-----------------------------------------------------------------------------
(* generate_items__ *)

\* An attribute is its path and its tokens
Attr(path, tokens) == [path |-> path, tokens |-> tokens]

\* #[value(expr)] and #[value(expr for item)]
ValueAttr(expr, for_item) == Attr("value", [expr |-> expr, for_item |-> for_item])

ValueBody(tokens) == [expr |-> tokens.expr, for_item |-> tokens.for_item]

\* One entry `label { content } { documentation }` of the arguments
MacroArg(label, content, documentation) ==
    [label |-> label, content |-> content, documentation |-> documentation]

\* GenerateItemsArgs::parse: the entries are split by label into two vectors
RECURSIVE GenerateItemsArgsLoop(_, _)
GenerateItemsArgsLoop(result, input) ==
    IF input = <<>> \/ result.status # "ok" THEN result
    ELSE LET kind == input[1].label
             documentation == input[1].documentation
             c == ConstructorInfoParse(input[1].content)
             b == PartialBuilderInfoParse(input[1].content)
         IN IF kind = "constructor" THEN
                IF c.status # "ok" THEN [result EXCEPT !.status = "err"]
                ELSE GenerateItemsArgsLoop(
                        [result EXCEPT !.constructors =
                            Append(@, [info |-> c, documentation |-> documentation])],
                        Tail(input))
            ELSE IF kind = "builder" THEN
                IF b.status # "ok" THEN [result EXCEPT !.status = "err"]
                ELSE GenerateItemsArgsLoop(
                        [result EXCEPT !.builders =
                            Append(@, [info |-> b, documentation |-> documentation])],
                        Tail(input))
            ELSE [result EXCEPT !.status = "panic"]

\* The same loop pushing every entry to the front of its vector
RECURSIVE GenerateItemsArgsParseFront(_)
GenerateItemsArgsParseFront(input) ==
    IF input = <<>> THEN [status |-> "ok", builders |-> <<>>, constructors |-> <<>>]
    ELSE LET rest == GenerateItemsArgsParseFront(SubSeq(input, 1, Len(input) - 1))
             last == input[Len(input)]
         IN IF last.label = "constructor"
            THEN [rest EXCEPT !.constructors =
                    <<[info |-> ConstructorInfoParse(last.content),
                       documentation |-> last.documentation]>> \o @]
            ELSE [rest EXCEPT !.builders =
                    <<[info |-> PartialBuilderInfoParse(last.content),
                       documentation |-> last.documentation]>> \o @]

GenerateItemsArgsParse(input) ==
    GenerateItemsArgsLoop([status |-> "ok", builders |-> <<>>, constructors |-> <<>>], input)

\* The names a `for` clause may refer to: constructors only
ItemNamesConstructorsOnly(constructors, builders) ==
    {constructors[i].info.name : i \in DOMAIN constructors}

\* item_names: every constructor's name and every completed builder's name
ItemNamesOf(constructors, builders) ==
    {constructors[i].info.name : i \in DOMAIN constructors}
        \cup {builders[i].name : i \in DOMAIN builders}

\* HashMap::insert
MapInsert(m, k, v) == [n \in (DOMAIN m) \cup {k} |-> IF n = k THEN v ELSE m[n]]

\* The loop body keeping the first default initializer of a field
FieldAttrFirstDefault(st, index, attr, item_names) ==
    IF attr.path # "value" THEN st
    ELSE LET vb == ValueBody(attr.tokens)
             st1 == [st EXCEPT !.condemned_indexes = Append(@, index)]
         IN IF vb.for_item # None THEN
                IF Unwrap(vb.for_item) \notin item_names
                THEN [st1 EXCEPT !.status = "err", !.subject = Unwrap(vb.for_item)]
                ELSE [st1 EXCEPT !.custom_init = MapInsert(@, Unwrap(vb.for_item), vb.expr)]
            ELSE IF st.default_init = None THEN [st1 EXCEPT !.default_init = Some(vb.expr)]
            ELSE st1

\* The body of the loop over one field's attributes (index is the 1-based position)
FieldAttr(st, index, attr, item_names) ==
    IF attr.path # "value" THEN st
    ELSE LET vb == ValueBody(attr.tokens)
             st1 == [st EXCEPT !.condemned_indexes = Append(@, index)]
         IN IF vb.for_item # None THEN
                IF Unwrap(vb.for_item) \notin item_names
                THEN [st1 EXCEPT !.status = "err", !.subject = Unwrap(vb.for_item)]
                ELSE [st1 EXCEPT !.custom_init = MapInsert(@, Unwrap(vb.for_item), vb.expr)]
            ELSE [st1 EXCEPT !.default_init = Some(vb.expr)]

RECURSIVE FieldAttrsLoop(_, _, _, _)
FieldAttrsLoop(st, attrs, index, item_names) ==
    IF index > Len(attrs) \/ st.status # "ok" THEN st
    ELSE FieldAttrsLoop(FieldAttr(st, index, attrs[index], item_names),
                        attrs, index + 1, item_names)

\* The removals without the reverse(): in ascending order, on a vector that
\* has already shrunk
RECURSIVE RemoveCondemnedForward(_, _)
RemoveCondemnedForward(attrs, condemned_indexes) ==
    IF condemned_indexes = <<>> THEN attrs
    ELSE RemoveCondemnedForward(
            IF condemned_indexes[1] <= Len(attrs) THEN RemoveAt(attrs, condemned_indexes[1])
            ELSE attrs,
            Tail(condemned_indexes))

\* condemned_indexes.reverse(), then attrs.remove(index) for each
RECURSIVE RemoveCondemned(_, _)
RemoveCondemned(attrs, condemned_indexes) ==
    IF condemned_indexes = <<>> THEN attrs
    ELSE RemoveCondemned(RemoveAt(attrs, condemned_indexes[Len(condemned_indexes)]),
                         SubSeq(condemned_indexes, 1, Len(condemned_indexes) - 1))

\* The loop over the fields: their FieldInfo, and the fields without #[value]
RECURSIVE GenFieldsLoop(_, _, _, _, _)
GenFieldsLoop(st, fs, index, tuple, item_names) ==
    IF index > Len(fs) \/ st.status # "ok" THEN st
    ELSE LET field == fs[index]
             ident == IF field.ident = None THEN TupleIdents[index] ELSE Unwrap(field.ident)
             a == FieldAttrsLoop([status |-> "ok", subject |-> "", condemned_indexes |-> <<>>,
                                  custom_init |-> <<>>, default_init |-> None],
                                 field.attrs, 1, item_names)
         IN IF a.status # "ok"
            THEN [st EXCEPT !.status = a.status, !.subject = a.subject]
            ELSE GenFieldsLoop(
                    [st EXCEPT !.field_infos =
                                  Append(@, FieldInfo(ident, field.ty, a.custom_init, a.default_init)),
                               !.fields =
                                  Append(@, [field EXCEPT !.attrs =
                                                RemoveCondemned(@, a.condemned_indexes)])],
                    fs, index + 1, tuple, item_names)

GenError(status, message, subject) ==
    [status |-> status, message |-> message, subject |-> subject, tokens |-> <<>>]

\* position of the first element of s with a status other than "ok", 0 when none
FirstFailure(s) ==
    IF \E i \in DOMAIN s : s[i].def.status # "ok"
    THEN CHOOSE i \in DOMAIN s : s[i].def.status # "ok" /\ \A j \in 1..(i - 1) : s[j].def.status = "ok"
    ELSE 0

\* make_constructor_impl: return_type is the custom return type, else Self
ConstructorReturnType(info) ==
    IF info.custom_return_type = None THEN "Self" ELSE Unwrap(info.custom_return_type)

\* make_builder_impl: the return type of build() is the custom return type,
\* else the structure; with Result semantics it is Result<structure, custom>
BuilderReturnType(struct_name, info) ==
    IF info.return_semantics = "Result"
    THEN "::core::result::Result<" \o struct_name \o ", " \o Unwrap(info.custom_return_type) \o ">"
    ELSE IF info.custom_return_type = None THEN struct_name
    ELSE Unwrap(info.custom_return_type)

\* The loop over the builders
BuilderCode(struct_name, tuple, builders, field_infos) ==
    [i \in DOMAIN builders |->
        [label |-> "builder", name |-> builders[i].name,
         documentation |-> builders[i].documentation,
         vis |-> builders[i].vis,
         return_type |-> BuilderReturnType(struct_name, builders[i]),
         return_semantics |-> builders[i].return_semantics,
         def |-> make_builder_impl(tuple, builders[i].name, builders[i].params, field_infos)]]

\* The loop over the constructors
ConstructorDefs(tuple, constructors, field_infos) ==
    [i \in DOMAIN constructors |->
        [label |-> "constructor", name |-> constructors[i].info.name,
         documentation |-> constructors[i].documentation,
         vis |-> constructors[i].info.vis,
         return_type |-> ConstructorReturnType(constructors[i].info),
         return_semantics |-> constructors[i].info.return_semantics,
         def |-> make_constructor_impl(tuple, constructors[i].info.name,
                                       constructors[i].info.params, field_infos)]]

\* The first Err of either loop is returned; otherwise the output is the
\* structure, every builder's code, then one impl block with every constructor
\* An emission that leaves out the items that failed and reports success
GenEmitBestEffort(struct_def_out, field_infos, builder_code, constructor_defs) ==
    [status |-> "ok", message |-> "", subject |-> "",
     struct_def |-> struct_def_out,
     field_infos |-> field_infos,
     tokens |-> SelectSeq(builder_code \o constructor_defs, LAMBDA t : t.def.status = "ok")]

GenEmit(struct_def_out, field_infos, builder_code, constructor_defs) ==
    IF FirstFailure(builder_code) > 0
    THEN GenError(builder_code[FirstFailure(builder_code)].def.status, "builder",
                  builder_code[FirstFailure(builder_code)].def.at)
    ELSE IF FirstFailure(constructor_defs) > 0
    THEN GenError(constructor_defs[FirstFailure(constructor_defs)].def.status, "constructor", "")
    ELSE [status |-> "ok", message |-> "", subject |-> "",
          struct_def |-> struct_def_out,
          field_infos |-> field_infos,
          tokens |-> builder_code \o constructor_defs]

GenFields(item, tuple, constructors, builders, fl) ==
    IF fl.status # "ok"
    THEN GenError("err", "does not refer to a constructor or builder", fl.subject)
    ELSE GenEmit([item EXCEPT !.fields = fl.fields], fl.field_infos,
                 BuilderCode(item.ident, tuple, builders, fl.field_infos),
                 ConstructorDefs(tuple, constructors, fl.field_infos))

UnitStructMessage == "Cannot use make_constructor or make_builder on a unit struct."

\* generate_items__ refusing every structure without fields
GenItemsNoFields(item, constructors, builders) ==
    IF item.fields = <<>>
    THEN GenError("err", UnitStructMessage, "")
    ELSE GenFields(item, item.shape = "tuple", constructors, builders,
                   GenFieldsLoop([status |-> "ok", subject |-> "", field_infos |-> <<>>,
                                  fields |-> <<>>],
                                 item.fields, 1, item.shape = "tuple",
                                 ItemNamesOf(constructors, builders)))

GenItems(item, constructors, builders) ==
    IF item.shape = "unit"
    THEN GenError("err", UnitStructMessage, "")
    ELSE GenFields(item, item.shape = "tuple", constructors, builders,
                   GenFieldsLoop([status |-> "ok", subject |-> "", field_infos |-> <<>>,
                                  fields |-> <<>>],
                                 item.fields, 1, item.shape = "tuple",
                                 ItemNamesOf(constructors, builders)))

GenParsed(args, item) ==
    IF args.status # "ok" THEN GenError(args.status, "parse", "")
    ELSE GenItems(item, args.constructors,
                  [i \in DOMAIN args.builders |->
                      Complete(args.builders[i].info, item.ident, args.builders[i].documentation)])

generate_items__(attr, item) == GenParsed(GenerateItemsArgsParse(attr), item)

-----------------------------------------------------------------------------
(* make_item *)

GenPath == "::scones::generate_items__"

\* A token of an attribute's token stream
Tok(t, v) == [t |-> t, v |-> v]

\* #[doc = "content"], the content a sequence of characters and words
DocAttr(content) == Attr("doc", <<Tok("=", <<>>), Tok("LitStr", content)>>)

\* #[doc(hidden)]
DocHidden == Attr("doc", <<Tok("Group", <<"hidden">>)>>)

\* MaybeDocComment::parse: the value and the tokens it left unread
MaybeDocComment(input) ==
    IF input = <<>> \/ input[1].t # "=" THEN [status |-> "ok", value |-> None, rest |-> input]
    ELSE IF Len(input) >= 2 /\ input[2].t = "LitStr"
         THEN [status |-> "ok", value |-> Some(input[2].v), rest |-> SubSeq(input, 3, Len(input))]
    ELSE [status |-> "err", value |-> None, rest |-> <<>>]

\* syn::parse2: a parser that leaves tokens unread is an error
parse2(result) ==
    IF result.status = "ok" /\ result.rest # <<>>
    THEN [status |-> "err", value |-> None, rest |-> <<>>]
    ELSE result

\* content.starts_with(" ^")
StartsWithCaret(content) == Len(content) >= 2 /\ content[1] = " " /\ content[2] = "^"

\* The body of the loop over struct_def.attrs (index is the 1-based position);
\* .unwrap() on a parse error is a panic
ItemAttr(st, index, macro_arg) ==
    LET attr == st.attrs[index]
        doc == parse2(MaybeDocComment(attr.tokens))
        st1 == IF attr.path = "doc" THEN
                   IF doc.value # None /\ st.consume_doc /\ StartsWithCaret(Unwrap(doc.value))
                   THEN [st EXCEPT !.user_documentation =
                                      Append(@, SubSeq(Unwrap(doc.value), 3, Len(Unwrap(doc.value)))),
                                   !.condemned_indexes = Append(@, index)]
                   ELSE st
               ELSE [st EXCEPT !.consume_doc = FALSE]
    IN IF attr.path = "doc" /\ doc.status # "ok" THEN [st EXCEPT !.status = "panic"]
       ELSE IF attr.path = GenPath
       THEN [st1 EXCEPT !.attrs[index].tokens =
                            Append(@, [macro_arg EXCEPT !.documentation = st1.user_documentation]),
                        !.found = TRUE]
       ELSE st1

RECURSIVE ItemLoop(_, _, _)
ItemLoop(st, index, macro_arg) ==
    IF index > Len(st.attrs) \/ st.found \/ st.status # "ok" THEN st
    ELSE ItemLoop(ItemAttr(st, index, macro_arg), index + 1, macro_arg)

\* insert_at left at the front of the attribute list
InsertAtFront(attrs) == 0

\* insert_at: the 0-based index of the first derive, the length when there is none
InsertAtIndex(attrs) ==
    IF \E i \in DOMAIN attrs : attrs[i].path = "derive"
    THEN (CHOOSE i \in DOMAIN attrs :
             attrs[i].path = "derive" /\ \A j \in 1..(i - 1) : attrs[j].path # "derive") - 1
    ELSE Len(attrs)

\* parsed is the result of ItemType's parser on input_attr
make_item(parsed, input_attr, item, label) ==
    IF parsed.status # "ok" THEN [status |-> "err", item |-> item]
    ELSE
    LET macro_arg == MacroArg(label, input_attr, <<>>)
        st == ItemLoop([status |-> "ok", attrs |-> item.attrs, found |-> FALSE,
                        consume_doc |-> TRUE, user_documentation |-> <<>>,
                        condemned_indexes |-> <<>>],
                       1, macro_arg)
        attr_def == Attr(GenPath, <<[macro_arg EXCEPT !.documentation = st.user_documentation]>>)
        inserted == IF st.found THEN st.attrs
                    ELSE InsertAt(st.attrs, InsertAtIndex(st.attrs), attr_def)
    IN IF st.status # "ok" THEN [status |-> st.status, item |-> item]
       ELSE [status |-> "ok",
             item |-> [item EXCEPT !.attrs = RemoveCondemned(inserted, st.condemned_indexes)]]

make_constructor(input_attr, item) ==
    make_item(ConstructorInfoParse(input_attr), input_attr, item, "constructor")

make_builder(input_attr, item) ==
    make_item(PartialBuilderInfoParse(input_attr), input_attr, item, "builder")

-----------------------------------------------------------------------------
(* Inputs of the constructor synthesizer *)

SeqsUpTo(S, n) == UNION {[1..k -> S] : k \in 0..n}

\* The initializers one field may carry for the item `name`
FieldInitChoices(name) ==
    {[custom_init |-> c, default_init |-> d] :
        c \in {<<>>, [n \in {name} |-> Var("x")]}, d \in {None, Some(Lit(1))}}

FieldLists(tuple, name) ==
    UNION {
        {[i \in 1..k |-> FieldInfo(FieldIdent(tuple, i), FieldTypes[i],
                                   ch[i].custom_init, ch[i].default_init)] :
            ch \in [1..k -> FieldInitChoices(name)]} :
        k \in 1..MaxFields}

CtorParamChoices(tuple) ==
    {CField(FieldIdent(tuple, 1)), CField(FieldIdent(tuple, 2)), CField("z"),
     CCustom("x", "i32"), CCustom("y", "u8"), Ellipses}

NoGen == [status |-> "none"]

BuilderNames == {"SBuilder", "OtherBuilder"}

BuilderIdle ==
    /\ bname = "SBuilder"
    /\ bparams = <<>>
    /\ bgen = NoGen
    /\ builder = None
    /\ given = <<>>
    /\ built = None

ItemIdle ==
    /\ struct_def = [ident |-> "S", shape |-> "named", attrs |-> <<>>, fields |-> <<>>]
    /\ declared = struct_def
    /\ invocations = <<>>
    /\ gout = NoGen

CtorIdle ==
    /\ cname = "new"
    /\ cparams = <<>>
    /\ creturn = "Selff"
    /\ cgen = NoGen
    /\ cargs = <<>>
    /\ cinstance = <<>>

CtorInit ==
    /\ pc = "ctor"
    /\ is_tuple \in BOOLEAN
    /\ keyword_idents = FALSE
    /\ hash_seed = 0
    /\ cname \in ItemNames
    /\ fields \in FieldLists(is_tuple, "new")
    /\ cparams \in SeqsUpTo(CtorParamChoices(is_tuple), MaxParams)
    /\ creturn = "Selff"
    /\ cgen = NoGen
    /\ cargs = <<>>
    /\ cinstance = <<>>
    /\ BuilderIdle
    /\ ItemIdle

\* generate_items__ runs make_constructor_impl for the directive
MakeConstructor ==
    /\ pc = "ctor"
    /\ pc' = "ctor_generated"
    /\ cgen' = make_constructor_impl(is_tuple, cname, cparams, fields)
    /\ UNCHANGED <<itemVars, structVars, cname, cparams, creturn, cargs, cinstance, builderVars>>

\* A caller invokes the generated constructor
CallConstructor ==
    /\ pc = "ctor_generated"
    /\ CtorCompiles(cgen, fields)
    /\ QuestionMarkCompiles(cgen, creturn)
    /\ \E args \in [DOMAIN cgen.params -> Values \cup {Unparsable}] :
          /\ \A p \in DOMAIN cgen.params : args[p] \in ArgValues(cgen.params[p].ty)
          /\ cargs' = args
          /\ cinstance' = ConstructorBody(creturn, cgen, args)
    /\ pc' = "ctor_called"
    /\ UNCHANGED <<itemVars, structVars, cname, cparams, creturn, cgen, builderVars>>

CtorNext == MakeConstructor \/ CallConstructor

\* Constructors that return Result<Self, E>, their initializers using `?`
ResultFieldInitChoices == {None, Some(Try("text")), Some(Try("other")), Some(Lit(1))}

ResultFieldLists(tuple) ==
    UNION {
        {[i \in 1..k |-> FieldInfo(FieldIdent(tuple, i), FieldTypes[i], <<>>, ch[i])] :
            ch \in [1..k -> ResultFieldInitChoices]} :
        k \in 1..MaxFields}

ResultParamChoices ==
    {<<CCustom("text", "&str")>>,
     <<CCustom("text", "&str"), CCustom("other", "&str")>>,
     <<Ellipses, CCustom("text", "&str")>>,
     <<CCustom("other", "&str"), Ellipses, CCustom("text", "&str")>>}

ResultInit ==
    /\ pc = "ctor"
    /\ is_tuple \in BOOLEAN
    /\ keyword_idents = FALSE
    /\ hash_seed = 0
    /\ cname = "new"
    /\ fields \in ResultFieldLists(is_tuple)
    /\ cparams \in ResultParamChoices
    /\ creturn \in {"Selff", "Result"}
    /\ cgen = NoGen
    /\ cargs = <<>>
    /\ cinstance = <<>>
    /\ BuilderIdle
    /\ ItemIdle

SpecResult == ResultInit /\ [][CtorNext]_vars

SpecCtor == CtorInit /\ [][CtorNext]_vars


-----------------------------------------------------------------------------
(* The builder synthesizer and a caller of the generated builder *)

BuilderFieldInitChoices ==
    {[custom_init |-> c, default_init |-> d] :
        c \in {<<>>, [n \in {"SBuilder"} |-> UnwrapOr("x", 9)]},
        d \in {None, Some(Lit(7))}}

BuilderFieldLists(tuple) ==
    UNION {
        {[i \in 1..k |-> FieldInfo(FieldIdent(tuple, i), FieldTypes[i],
                                   ch[i].custom_init, ch[i].default_init)] :
            ch \in [1..k -> BuilderFieldInitChoices]} :
        k \in 1..MaxFields}

BuilderParamChoices(tuple) ==
    {BField(FieldIdent(tuple, 1), FALSE), BField(FieldIdent(tuple, 1), TRUE),
     BField(FieldIdent(tuple, 2), TRUE), BField("z", FALSE),
     BCustom("x", "i32", FALSE), BCustom("x", "i32", TRUE)}

BuilderInit ==
    /\ pc = "builder"
    /\ is_tuple \in BOOLEAN
    /\ keyword_idents = FALSE
    /\ hash_seed = 0
    /\ fields \in BuilderFieldLists(is_tuple)
    /\ bname \in BuilderNames
    /\ bparams \in SeqsUpTo(BuilderParamChoices(is_tuple), MaxBuilderParams)
    /\ bgen = NoGen
    /\ builder = None
    /\ given = <<>>
    /\ built = None
    /\ CtorIdle
    /\ ItemIdle

\* generate_items__ runs make_builder_impl for the directive
MakeBuilder ==
    /\ pc = "builder"
    /\ pc' = "builder_generated"
    /\ bgen' = make_builder_impl(is_tuple, bname, bparams, fields)
    /\ UNCHANGED <<itemVars, structVars, ctorVars, bname, bparams, builder, given, built>>

\* A caller starts the builder with new()
CallNew ==
    /\ pc = "builder_generated"
    /\ BuilderCompiles(bgen, fields)
    /\ pc' = "building"
    /\ builder' = BuilderNewValue(bgen)
    /\ given' = [n \in {bgen.builder_fields[i].name : i \in DOMAIN bgen.builder_fields} |-> None]
    /\ UNCHANGED <<itemVars, structVars, ctorVars, bname, bparams, bgen, built>>

\* The caller calls the setter of one builder field
CallSetter ==
    /\ pc = "building"
    /\ \E k \in DOMAIN bgen.builder_fields, value \in Values :
          /\ builder' = ApplySetter(bgen, builder, k, value)
          /\ given' = [given EXCEPT ![bgen.builder_fields[k].name] = Some(value)]
    /\ UNCHANGED <<pc, itemVars, structVars, ctorVars, bname, bparams, bgen, built>>

\* The caller calls build(), which the builder's type must provide
CallBuild ==
    /\ pc = "building"
    /\ BuildAvailable(bgen, builder)
    /\ pc' = "built"
    /\ built' = BuildBody(bgen, builder)
    /\ UNCHANGED <<itemVars, structVars, ctorVars, bname, bparams, bgen, builder, given>>

BuilderNext == MakeBuilder \/ CallNew \/ CallSetter \/ CallBuild

\* The builder synthesizer alone, on the inputs of BuilderInit
SpecBuilderGen == BuilderInit /\ [][MakeBuilder]_vars

\* Builders of a two-field structure with setters of every kind
SetterFieldLists(tuple) ==
    {[i \in 1..2 |-> FieldInfo(FieldIdent(tuple, i), FieldTypes[i], <<>>, d[i])] :
        d \in [1..2 -> {None, Some(Lit(7))}]}

SetterParamChoices(tuple) ==
    {<<>>,
     <<BField(FieldIdent(tuple, 1), TRUE)>>,
     <<BField(FieldIdent(tuple, 2), TRUE)>>,
     <<BCustom("x", "i32", TRUE)>>,
     <<BCustom("x", "i32", FALSE)>>,
     <<BField(FieldIdent(tuple, 1), TRUE), BCustom("x", "i32", TRUE)>>,
     <<BField(FieldIdent(tuple, 1), TRUE), BField(FieldIdent(tuple, 2), TRUE)>>}

SetterInit ==
    /\ pc = "builder"
    /\ is_tuple \in BOOLEAN
    /\ keyword_idents = FALSE
    /\ hash_seed = 0
    /\ fields \in SetterFieldLists(is_tuple)
    /\ bname = "SBuilder"
    /\ bparams \in SetterParamChoices(is_tuple)
    /\ bgen = NoGen
    /\ builder = None
    /\ given = <<>>
    /\ built = None
    /\ CtorIdle
    /\ ItemIdle

SpecSetters == SetterInit /\ [][BuilderNext]_vars

SpecBuilder == BuilderInit /\ [][BuilderNext]_vars

-----------------------------------------------------------------------------
(* The compiler expanding the attributes of one structure, top to bottom *)

MacroPaths == {"make_constructor", "make_builder", GenPath, "derive"}

\* position of the first attribute that names a macro, 0 when none is left
FirstMacro(attrs) ==
    IF \E i \in DOMAIN attrs : attrs[i].path \in MacroPaths
    THEN CHOOSE i \in DOMAIN attrs :
            attrs[i].path \in MacroPaths /\ \A j \in 1..(i - 1) : attrs[j].path \notin MacroPaths
    ELSE 0

\* The attribute being expanded, and the item the macro receives: the
\* structure without that attribute
Invoked == struct_def.attrs[FirstMacro(struct_def.attrs)]
ItemInput == [struct_def EXCEPT !.attrs = RemoveAt(struct_def.attrs, FirstMacro(struct_def.attrs))]

Expanding(path) ==
    /\ pc = "expanding"
    /\ FirstMacro(struct_def.attrs) > 0
    /\ Invoked.path = path

\* The outcome of a macro: its output replaces the item, a compile error or a
\* panic ends the expansion
PcAfter(status) ==
    IF status = "ok" THEN "expanding"
    ELSE IF status = "err" THEN "compile_error" ELSE "panicked"

ExpandMakeItem(out) ==
    /\ pc' = PcAfter(out.status)
    /\ struct_def' = out.item
    /\ UNCHANGED <<declared, invocations, gout, structVars, ctorVars, builderVars>>

ExpandMakeConstructor ==
    /\ Expanding("make_constructor")
    /\ ExpandMakeItem(make_constructor(Invoked.tokens, ItemInput))

ExpandMakeBuilder ==
    /\ Expanding("make_builder")
    /\ ExpandMakeItem(make_builder(Invoked.tokens, ItemInput))

ExpandGenerateItems ==
    /\ Expanding(GenPath)
    /\ LET out == generate_items__(Invoked.tokens, ItemInput)
       IN /\ gout' = out
          /\ pc' = PcAfter(out.status)
          /\ struct_def' = IF out.status = "ok" THEN out.struct_def ELSE ItemInput
    /\ invocations' = Append(invocations, Invoked.tokens)
    /\ UNCHANGED <<declared, structVars, ctorVars, builderVars>>

\* A derive leaves the structure as it is, without the derive attribute
ExpandDerive ==
    /\ Expanding("derive")
    /\ struct_def' = ItemInput
    /\ UNCHANGED <<pc, declared, invocations, gout, structVars, ctorVars, builderVars>>

\* The attributes a structure may carry
DefaultText == DirectiveText("", None, None, None)
AttrChoices ==
    {Attr("make_constructor", DefaultText),
     Attr("make_builder", DefaultText),
     Attr("make_constructor", DirectiveText("", None, Some(<<ParamText("ident?", "a", "")>>), None)),
     DocAttr(<<" ", "^", " Makes one.">>),
     DocAttr(<<" ", "A structure.">>),
     DocHidden,
     Attr("derive", <<>>),
     Attr("allow", <<>>)}

GenField(ident, ty, attrs) == [ident |-> ident, ty |-> ty, attrs |-> attrs]

ItemInit ==
    /\ pc = "expanding"
    /\ \E attrs \in SeqsUpTo(AttrChoices, MaxAttrs) :
          struct_def = [ident |-> "S", shape |-> "named", attrs |-> attrs,
                        fields |-> <<GenField(Some("a"), "i32", <<ValueAttr(Lit(7), None)>>)>>]
    /\ declared = struct_def
    /\ invocations = <<>>
    /\ gout = NoGen
    /\ is_tuple = FALSE
    /\ keyword_idents = FALSE
    /\ hash_seed = 0
    /\ fields = <<>>
    /\ CtorIdle
    /\ BuilderIdle

ItemNext == ExpandMakeConstructor \/ ExpandMakeBuilder \/ ExpandGenerateItems \/ ExpandDerive

SpecItem == ItemInit /\ [][ItemNext]_vars

-----------------------------------------------------------------------------
(* generate_items__ on a structure that carries one accumulated attribute *)

DocNames == <<" first", " second", " third", " fourth">>

DirectiveChoices ==
    {[label |-> "constructor", content |-> DefaultText],
     [label |-> "constructor", content |-> DirectiveText("pub", Some("other"), None, None)],
     [label |-> "builder", content |-> DefaultText],
     [label |-> "builder", content |-> DirectiveText("pub", Some("OtherBuilder"), None, None)]}

GenArgChoices ==
    UNION {
        {[i \in 1..k |-> MacroArg(d[i].label, d[i].content, << <<DocNames[i]>> >>)] :
            d \in [1..k -> DirectiveChoices]} :
        k \in 1..MaxDirectives}

FieldAttrChoices ==
    {ValueAttr(Lit(7), None),
     ValueAttr(Lit(9), Some("new")),
     ValueAttr(Lit(9), Some("SBuilder")),
     ValueAttr(Lit(9), Some("nope")),
     ValueAttr(Lit(9), Some("nada")),
     Attr("allow", <<>>)}

GenFieldCounts == {0, 1, 2}

RECURSIVE TotalLen(_)
TotalLen(ls) == IF ls = <<>> THEN 0 ELSE Len(ls[1]) + TotalLen(Tail(ls))

GenFieldChoices(shape) ==
    IF shape = "unit" THEN {<<>>}
    ELSE UNION {
        {[i \in 1..k |-> GenField(IF shape = "tuple" THEN None ELSE Some(NamedIdents[i]),
                                  FieldTypes[i], ls[i])] :
            ls \in {l \in [1..k -> SeqsUpTo(FieldAttrChoices, MaxValueAttrs)] :
                       TotalLen(l) <= MaxValueAttrs}} :
        k \in GenFieldCounts}

GenInit ==
    /\ pc = "expanding"
    /\ \E shape \in {"named", "tuple", "unit"} :
       \E fs \in GenFieldChoices(shape) :
       \E args \in GenArgChoices :
          struct_def = [ident |-> "S", shape |-> shape, attrs |-> <<Attr(GenPath, args)>>,
                        fields |-> fs]
    /\ declared = struct_def
    /\ invocations = <<>>
    /\ gout = NoGen
    /\ is_tuple = FALSE
    /\ keyword_idents = FALSE
    /\ hash_seed = 0
    /\ fields = <<>>
    /\ CtorIdle
    /\ BuilderIdle

GenNext == ExpandGenerateItems

\* Structures whose fields carry several attributes, `value` among them
ValueAttrChoices ==
    {ValueAttr(Lit(7), None), ValueAttr(Lit(8), None), ValueAttr(Lit(9), Some("new")),
     Attr("allow", <<>>)}

ValueFieldChoices ==
    UNION {
        {[i \in 1..k |-> GenField(Some(NamedIdents[i]), FieldTypes[i], ls[i])] :
            ls \in [1..k -> SeqsUpTo(ValueAttrChoices, MaxValueAttrs)]} :
        k \in 1..2}

ValueInit ==
    /\ pc = "expanding"
    /\ \E fs \in ValueFieldChoices :
          struct_def = [ident |-> "S", shape |-> "named",
                        attrs |-> <<Attr(GenPath,
                                         <<MacroArg("constructor", DefaultText, <<>>),
                                           MacroArg("builder", DefaultText, <<>>)>>)>>,
                        fields |-> fs]
    /\ declared = struct_def
    /\ invocations = <<>>
    /\ gout = NoGen
    /\ is_tuple = FALSE
    /\ keyword_idents = FALSE
    /\ hash_seed = 0
    /\ fields = <<>>
    /\ CtorIdle
    /\ BuilderIdle

SpecValue == ValueInit /\ [][GenNext]_vars

\* Directive sets in which a directive names a field that does not exist, on
\* structures in which a `value ... for` names no item
FailingParams == Some(<<ParamText("ident", "z", "")>>)

FailureDirectiveChoices ==
    {[label |-> "constructor", content |-> DefaultText],
     [label |-> "constructor", content |-> DirectiveText("pub", Some("other"), FailingParams, None)],
     [label |-> "builder", content |-> DefaultText],
     [label |-> "builder", content |-> DirectiveText("pub", Some("OtherBuilder"), FailingParams, None)]}

FailureArgChoices ==
    UNION {
        {[i \in 1..k |-> MacroArg(d[i].label, d[i].content, <<>>)] :
            d \in [1..k -> FailureDirectiveChoices]} :
        k \in 1..MaxDirectives}

FailureFieldAttrs == {<<>>, <<ValueAttr(Lit(7), None)>>, <<ValueAttr(Lit(7), Some("nope"))>>}

FailureInit ==
    /\ pc = "expanding"
    /\ \E shape \in {"named", "tuple"}, args \in FailureArgChoices, attrs \in FailureFieldAttrs :
          struct_def = [ident |-> "S", shape |-> shape, attrs |-> <<Attr(GenPath, args)>>,
                        fields |-> <<GenField(IF shape = "tuple" THEN None ELSE Some("a"), "i32", <<>>),
                                     GenField(IF shape = "tuple" THEN None ELSE Some("b"), "u8", attrs)>>]
    /\ declared = struct_def
    /\ invocations = <<>>
    /\ gout = NoGen
    /\ is_tuple = FALSE
    /\ keyword_idents = FALSE
    /\ hash_seed = 0
    /\ fields = <<>>
    /\ CtorIdle
    /\ BuilderIdle

SpecFailure == FailureInit /\ [][GenNext]_vars

\* The compiler runs again on the unchanged source, in a new process whose
\* hash containers have new keys
MaxRuns == 2
HashSeeds == {0, 1}

NewProcess ==
    /\ pc # "expanding" \/ FirstMacro(struct_def.attrs) = 0
    /\ Len(invocations) < MaxRuns
    /\ pc' = "expanding"
    /\ struct_def' = declared
    /\ hash_seed' \in HashSeeds \ {hash_seed}
    /\ UNCHANGED <<declared, invocations, gout, is_tuple, fields, keyword_idents, ctorVars, builderVars>>

RerunNext == ExpandGenerateItems \/ NewProcess

\* The sources that are compiled twice
RerunFieldAttrs ==
    {<<>>, <<ValueAttr(Lit(7), None)>>, <<ValueAttr(Lit(9), Some("new"))>>,
     <<ValueAttr(Lit(9), Some("nope"))>>}

RerunFieldChoices(shape) ==
    UNION {
        {[i \in 1..k |-> GenField(IF shape = "tuple" THEN None ELSE Some(NamedIdents[i]),
                                  FieldTypes[i], ls[i])] :
            ls \in [1..k -> RerunFieldAttrs]} :
        k \in 1..2}

RerunInit ==
    /\ pc = "expanding"
    /\ \E shape \in {"named", "tuple"} :
       \E fs \in RerunFieldChoices(shape) :
       \E args \in GenArgChoices :
          struct_def = [ident |-> "S", shape |-> shape, attrs |-> <<Attr(GenPath, args)>>,
                        fields |-> fs]
    /\ declared = struct_def
    /\ invocations = <<>>
    /\ gout = NoGen
    /\ is_tuple = FALSE
    /\ keyword_idents = FALSE
    /\ hash_seed = 0
    /\ fields = <<>>
    /\ CtorIdle
    /\ BuilderIdle

SpecRerun == RerunInit /\ [][RerunNext]_vars

SpecGen == GenInit /\ [][GenNext]_vars

-----------------------------------------------------------------------------
(* One directive, from its text to the items generated for it *)

DirectiveKinds == {"make_constructor", "make_builder"}

VisChoices == {"", "pub", "pub(crate)"}

ParamsChoices ==
    {None, Some(<<>>), Some(<<ParamText("dots", "", "")>>),
     Some(<<ParamText("ident", "a", "")>>), Some(<<ParamText("ident?", "b", "")>>),
     Some(<<ParamText("ident", "b", "")>>),
     Some(<<ParamText("typed", "x", "i32")>>), Some(<<ParamText("option_typed", "x", "i32")>>)}

RetChoices ==
    {None, Some(RetText("Self", <<>>, "")), Some(RetText("Self", <<>>, "::Assoc")),
     Some(RetText("Result", <<"Self", "E">>, "")), Some(RetText("Result", <<"S", "E">>, "")),
     Some(RetText("Option", <<"Self">>, "")), Some(RetText("&", <<>>, "str"))}

DirectiveName(path) == IF path = "make_constructor" THEN "create" ELSE "SBuilder"

\* The name of the item when the directive gives none
DefaultName(path) == IF path = "make_constructor" THEN "new" ELSE "SBuilder"

DirectiveInit ==
    /\ pc = "expanding"
    /\ \E path \in DirectiveKinds, vis \in VisChoices, named \in BOOLEAN,
          params \in ParamsChoices, ret \in RetChoices, keyed \in BOOLEAN :
          struct_def =
              [ident |-> "S", shape |-> "named",
               attrs |-> <<Attr(path, DirectiveText(vis,
                                                    IF named THEN Some(DirectiveName(path)) ELSE None,
                                                    params, ret))>>,
               fields |-> <<GenField(Some("a"), "i32", <<>>),
                            GenField(Some("b"), "u8",
                                     <<ValueAttr(Lit(7),
                                                 IF ~keyed THEN None
                                                 ELSE IF named THEN Some(DirectiveName(path))
                                                 ELSE Some(DefaultName(path)))>>)>>]
    /\ declared = struct_def
    /\ invocations = <<>>
    /\ gout = NoGen
    /\ is_tuple = FALSE
    /\ keyword_idents \in BOOLEAN
    /\ hash_seed = 0
    /\ fields = <<>>
    /\ CtorIdle
    /\ BuilderIdle

DirectiveNext == ExpandMakeConstructor \/ ExpandMakeBuilder \/ ExpandGenerateItems

SpecDirective == DirectiveInit /\ [][DirectiveNext]_vars

-----------------------------------------------------------------------------
(* Claims about the constructor synthesizer *)

CtorGenerated == pc \in {"ctor_generated", "ctor_called"}

InPool(name, f) == name \notin DOMAIN f.custom_init /\ f.default_init = None

\* C3: for every constructor directive and every parameter specification, each
\* field with no default initializer and no override keyed to the directive's
\* name appears exactly once in the parameter list make_constructor_args produces.
C3_PoolFieldExactlyOnce ==
    (CtorGenerated /\ cgen.status = "ok") =>
        \A i \in DOMAIN fields :
            InPool(cname, fields[i]) => Count(cgen.params, fields[i].ident) = 1

\* The initializer the claim C4 states for one field
C4_Expected(f) ==
    IF cname \in DOMAIN f.custom_init THEN f.custom_init[cname]
    ELSE IF f.default_init # None THEN f.default_init[1]
    ELSE [k |-> "var", n |-> f.ident]

\* C4: for the constructor directive named N, each field's initializer is the
\* override registered for N if there is one, else the field's default
\* initializer if there is one, else the bare parameter of the field's name; the
\* initializers are in field declaration order whatever the parameter order,
\* and a call returns the value they evaluate to.
C4_InitializerChoice ==
    /\ (CtorGenerated /\ cgen.status = "ok") =>
          /\ Len(cgen.initializers) = Len(fields)
          /\ \A i \in DOMAIN fields :
                /\ cgen.initializers[i].init = C4_Expected(fields[i])
                /\ ~is_tuple => cgen.initializers[i].label = <<fields[i].ident>>
    /\ pc = "ctor_called" =>
          \A i \in DOMAIN fields :
              LET e == C4_Expected(fields[i])
              IN cinstance[i] =
                    IF e.k = "lit" THEN e.v
                    ELSE cargs[CHOOSE p \in DOMAIN cgen.params : cgen.params[p].name = e.n]

\* C4's case: a called constructor whose parameters are written against the
\* declaration order and one of whose fields has both an override and a default
C4_Witness ==
    /\ pc = "ctor_called"
    /\ Len(fields) = 2
    /\ \E p, q \in DOMAIN cgen.params :
          p < q /\ cgen.params[p].name = fields[2].ident /\ cgen.params[q].name = fields[1].ident
    /\ \E i \in DOMAIN fields :
          cname \in DOMAIN fields[i].custom_init /\ fields[i].default_init # None

\* The parameters written explicitly, in written order
C6_Explicit(ps) ==
    LET written == SelectSeq(ps, LAMBDA p : p.kind # "Ellipses")
    IN [i \in DOMAIN written |->
          IF written[i].kind = "Custom"
          THEN [name |-> written[i].name, ty |-> written[i].ty]
          ELSE [name |-> written[i].name,
                ty |-> (CHOOSE f \in Range(fields) : f.ident = written[i].name).ty]]

\* The pool fields no explicit field reference consumed, in declaration order
C6_Unconsumed ==
    LET referenced == {cparams[i].name : i \in {j \in DOMAIN cparams : cparams[j].kind = "Field"}}
        left == SelectSeq(fields, LAMBDA f : InPool(cname, f) /\ f.ident \notin referenced)
    IN [i \in DOMAIN left |-> [name |-> left[i].ident, ty |-> left[i].ty]]

\* Position of the (last) ellipsis in the written list, 0 when there is none
C6_EllipsisAt ==
    LET at == {i \in DOMAIN cparams : cparams[i].kind = "Ellipses"}
    IN IF at = {} THEN 0 ELSE CHOOSE i \in at : \A j \in at : j <= i

\* C6: the pool fields not consumed by an explicit field reference are inserted
\* contiguously at the ellipsis, in declaration order, the explicit parameters
\* before and after it keeping their written order; with no ellipsis they are
\* appended after the last listed parameter.
C6_EllipsisInsertion ==
    (CtorGenerated /\ cgen.status = "ok") =>
        cgen.params =
            IF C6_EllipsisAt = 0 THEN C6_Explicit(cparams) \o C6_Unconsumed
            ELSE C6_Explicit(SubSeq(cparams, 1, C6_EllipsisAt - 1)) \o C6_Unconsumed
                 \o C6_Explicit(SubSeq(cparams, C6_EllipsisAt + 1, Len(cparams)))

\* C6's case: one ellipsis between two explicit parameters, two fields inserted
C6_Witness ==
    /\ CtorGenerated /\ cgen.status = "ok"
    /\ Len(cparams) = 3 /\ cparams[2].kind = "Ellipses"
    /\ cparams[1].kind = "Custom" /\ cparams[3].kind = "Custom"
    /\ Len(C6_Unconsumed) = 2
    /\ Len(cgen.params) = 4


-----------------------------------------------------------------------------
(* Claims about the generated builder *)

RequiredAt == {i \in DOMAIN bgen.builder_fields : bgen.builder_fields[i].kind = "Required"}
RequiredNames == {bgen.builder_fields[i].name : i \in RequiredAt}
OverrideNames ==
    {bgen.builder_fields[i].name :
        i \in {j \in DOMAIN bgen.builder_fields : bgen.builder_fields[j].kind = "Override"}}

\* Position of a builder field, and of a Required field's marker in the
\* builder type's status arguments
SlotOf(n) == CHOOSE i \in DOMAIN bgen.builder_fields : bgen.builder_fields[i].name = n
MarkerOf(n) ==
    CHOOSE i \in DOMAIN bgen.status_params :
        bgen.status_params[i] = bgen.builder_fields[SlotOf(n)].status_param

C1_State ==
    pc = "building" =>
        ((\A i \in DOMAIN builder.targs : builder.targs[i] = "Present")
            <=> (\A n \in RequiredNames : given[n] # None))

\* A step in which the setter of n is called (a repeated call with the value
\* already given changes nothing and is a stuttering step)
SetterCalled(n) == given'[n] # given[n]

SetterStep == pc = "building" /\ pc' = "building"

C1_Step ==
    SetterStep => \A n \in RequiredNames :
        (SetterCalled(n) /\ given[n] # None) =>
            /\ builder'.targs[MarkerOf(n)] = "Present"
            /\ \A i \in DOMAIN builder.targs :
                  i # MarkerOf(n) => builder'.targs[i] = builder.targs[i]

\* C1: from new() (all markers Missing) and after any sequence of setter calls,
\* build() is available if and only if every Required field's setter has been
\* called at least once; a second call of a Required setter changes no marker
\* other than (at most) that field's own.
C1_BuildIffAllRequiredSet == []C1_State /\ [][C1_Step]_vars

\* C1's case: a builder with two Required fields, both set
C1_Witness ==
    /\ pc = "building"
    /\ Cardinality(RequiredNames) >= 2
    /\ \A n \in RequiredNames : given[n] # None
    /\ \A i \in DOMAIN builder.targs : builder.targs[i] = "Present"

\* C2: calling Required field A's setter leaves every other Required field's
\* marker and stored container, and every Optional and Override slot,
\* unchanged; only A's marker (now Present) and A's stored value differ.
C2_SetterFrame ==
    [][SetterStep => \A A \in RequiredNames : SetterCalled(A) =>
             /\ \A i \in DOMAIN builder.slots :
                   i # SlotOf(A) => builder'.slots[i] = builder.slots[i]
             /\ \A i \in DOMAIN builder.targs :
                   i # MarkerOf(A) => builder'.targs[i] = builder.targs[i]
             /\ builder'.targs[MarkerOf(A)] = "Present"
             /\ builder'.slots[SlotOf(A)] = [data |-> given'[A], marker_ |-> "Present"]
             /\ given'[A] # None]_vars

\* C2's case: two Required setters have been called on a builder that also
\* holds a value in an Override or Optional slot
C2_Witness ==
    /\ pc = "building"
    /\ \E A, B \in RequiredNames : A # B /\ given[A] # None /\ given[B] # None
    /\ \E n \in DOMAIN given : n \notin RequiredNames /\ given[n] # None

\* The initializer of a field for this builder, evaluated on the values the
\* caller gave (the history), the field's own override input being absent
C5_Fallback(f) ==
    LET e == IF bname \in DOMAIN f.custom_init THEN f.custom_init[bname]
             ELSE f.default_init[1]
    IN IF e.k = "lit" THEN e.v
       ELSE IF e.k = "var" THEN given[e.n][1]
       ELSE IF given[e.n] = None THEN e.v ELSE given[e.n][1]

\* C5: an Override field whose setter was never called is built as the
\* field's initializer for this builder evaluated with no override input; one
\* whose setter was called with V is built as V.
C5_OverrideFallback ==
    (pc = "built" /\ built.status = "ok") =>
        \A i \in DOMAIN fields :
            fields[i].ident \in OverrideNames =>
                built.value[i] =
                    IF given[fields[i].ident] = None THEN C5_Fallback(fields[i])
                    ELSE given[fields[i].ident][1]

\* C5's case: a built value with one Override field set and another left unset
C5_Witness ==
    /\ pc = "built" /\ built.status = "ok"
    /\ \E n \in OverrideNames : given[n] # None
    /\ \E i \in DOMAIN fields :
          /\ fields[i].ident \in OverrideNames /\ given[fields[i].ident] = None
          /\ bname \notin DOMAIN fields[i].custom_init /\ fields[i].default_init # None

-----------------------------------------------------------------------------
(* Claims about the expansion of the attributes *)

DirectivePaths == {"make_constructor", "make_builder"}

\* The directives of an attribute list, as generate_items__ arguments list them
DirectivesOf(attrs) ==
    LET ds == SelectSeq(attrs, LAMBDA a : a.path \in DirectivePaths)
    IN [i \in DOMAIN ds |->
           [label |-> IF ds[i].path = "make_constructor" THEN "constructor" ELSE "builder",
            content |-> ds[i].tokens]]

Listed(args) == [i \in DOMAIN args |-> [label |-> args[i].label, content |-> args[i].content]]

ExpansionDone == pc = "expanding" /\ FirstMacro(struct_def.attrs) = 0

\* C7: once every attribute of a structure with N >= 1 directives is expanded,
\* generate_items__ has been invoked exactly once, and that invocation lists
\* all N directives in their declared order
C7_SingleInvocation ==
    (ExpansionDone /\ DirectivesOf(declared.attrs) # <<>>)
        => /\ Len(invocations) = 1
           /\ Listed(invocations[1]) = DirectivesOf(declared.attrs)

\* C10: no expansion of make_constructor, make_builder or generate_items__ panics
C10_NeverPanics == pc # "panicked"

-----------------------------------------------------------------------------
(* Claims about generate_items__ *)

Generated == Len(invocations) = 1 /\ gout.status # "none"
GenArgs == invocations[1]

\* position in the output of the code that carries the documentation of a directive
PositionOf(documentation) ==
    CHOOSE k \in DOMAIN gout.tokens : gout.tokens[k].documentation = documentation

\* C8 as stated: the code of a directive declared earlier precedes the code of
\* a directive declared later, whatever their kinds
C8_DeclarationOrder ==
    (Generated /\ gout.status = "ok")
        => \A i, j \in DOMAIN GenArgs :
              i < j => PositionOf(GenArgs[i].documentation) < PositionOf(GenArgs[j].documentation)

\* C8: directives of the same kind are emitted in their declared order, and the
\* code of every builder precedes the code of every constructor
C8_OrderWithinKind ==
    (Generated /\ gout.status = "ok")
        => \A i, j \in DOMAIN GenArgs :
              /\ (i < j /\ GenArgs[i].label = GenArgs[j].label)
                    => PositionOf(GenArgs[i].documentation) < PositionOf(GenArgs[j].documentation)
              /\ (GenArgs[i].label = "builder" /\ GenArgs[j].label = "constructor")
                    => PositionOf(GenArgs[i].documentation) < PositionOf(GenArgs[j].documentation)

C8_Witness ==
    /\ Generated
    /\ gout.status = "ok"
    /\ Len(GenArgs) = 2
    /\ GenArgs[1].label = "constructor"
    /\ GenArgs[2].label = "builder"
    /\ gout.tokens[1].documentation = GenArgs[2].documentation
    /\ gout.tokens[2].documentation = GenArgs[1].documentation

\* The names of the directives on the structure as written
C9_DirectiveNames ==
    {IF GenArgs[i].content.name # None THEN Unwrap(GenArgs[i].content.name)
     ELSE IF GenArgs[i].label = "constructor" THEN "new"
     ELSE declared.ident \o "Builder" : i \in DOMAIN GenArgs}

\* The `for` names of the structure as written, in field then attribute order
RECURSIVE C9_ForNames(_)
C9_ForNames(fs) ==
    IF fs = <<>> THEN <<>>
    ELSE LET vs == SelectSeq(fs[1].attrs,
                             LAMBDA a : a.path = "value" /\ a.tokens.for_item # None)
         IN [i \in DOMAIN vs |-> Unwrap(vs[i].tokens.for_item)] \o C9_ForNames(Tail(fs))

C9_Unresolved == SelectSeq(C9_ForNames(declared.fields), LAMBDA n : n \notin C9_DirectiveNames)

\* C9: an override is registered under X only when X names a directive of the
\* structure, and every `for X` with such an X is registered; when some `for`
\* names no directive the result is an error naming the first such identifier
\* and nothing is generated
C9_ForResolution ==
    (Generated /\ declared.shape # "unit")
        => /\ gout.status = "ok"
                => \A i \in DOMAIN gout.field_infos :
                      /\ DOMAIN gout.field_infos[i].custom_init \subseteq C9_DirectiveNames
                      /\ \A n \in Range(C9_ForNames(<<declared.fields[i]>>)) :
                            n \in DOMAIN gout.field_infos[i].custom_init
           /\ C9_Unresolved # <<>>
                => /\ gout.status = "err"
                   /\ gout.subject = C9_Unresolved[1]
                   /\ gout.tokens = <<>>
           /\ C9_Unresolved = <<>> => gout.status = "ok"

C9_Witness ==
    /\ Generated
    /\ gout.status = "err"
    /\ Len(C9_Unresolved) = 2
    /\ C9_Unresolved[1] # C9_Unresolved[2]
    /\ gout.subject = C9_Unresolved[1]
    /\ "SBuilder" \in Range(C9_ForNames(declared.fields))

-----------------------------------------------------------------------------
(* Claims about rejected field references *)

\* The positions of the field references that match no field left in the pool
\* when they are reached: the name is no pool field, or an earlier reference
\* has consumed it
C11_Unmatched ==
    {k \in DOMAIN cparams :
        /\ cparams[k].kind = "Field"
        /\ \/ \A i \in DOMAIN fields :
                 fields[i].ident = cparams[k].name => ~InPool(cname, fields[i])
           \/ \E j \in 1..(k - 1) :
                 cparams[j].kind = "Field" /\ cparams[j].name = cparams[k].name}

\* C11: when some field reference matches no field left in the pool,
\* make_constructor_args returns an error at the first such identifier and no
\* parameter list
C11_UnmatchedRejected ==
    (CtorGenerated /\ C11_Unmatched # {}) =>
        /\ cgen.status = "err"
        /\ cgen.at = cparams[CHOOSE k \in C11_Unmatched : \A j \in C11_Unmatched : k <= j].name

-----------------------------------------------------------------------------
(* Claims about one directive *)

\* The directive as written, and what became of it
Written == declared.attrs[1]
DirectiveParsed == pc = "compile_error" \/ struct_def # declared
DirectiveRejected == pc = "compile_error" /\ invocations = <<>>
DirectiveGenerated == Len(invocations) = 1 /\ gout.status = "ok"

\* The return shapes the claim C12 allows: absent, `Self`, `Result<Self, E>`
C12_Allowed(ret) ==
    \/ ret = None
    \/ Unwrap(ret) = RetText("Self", <<>>, "")
    \/ /\ Unwrap(ret).head = "Result"
       /\ Len(Unwrap(ret).args) = 2 /\ Unwrap(ret).args[1] = "Self"
       /\ Unwrap(ret).tail = ""

\* C12: a directive (here one with no parameter list) is accepted exactly when
\* its return shape is absent, `Self` or `Result<Self, E>`, and exactly
\* `Result<Self, E>` is generated with Result semantics
C12_ReturnShape ==
    (DirectiveParsed /\ Written.tokens.params = None) =>
        /\ ~DirectiveRejected <=> C12_Allowed(Written.tokens.ret)
        /\ DirectiveGenerated =>
              (gout.tokens[1].return_semantics = "Result"
                  <=> (Written.tokens.ret # None /\ Unwrap(Written.tokens.ret).head = "Result"))

C20_Explicit ==
    Attr("make_builder",
         DirectiveText("pub", Some("SBuilder"), Some(<<ParamText("dots", "", "")>>),
                       Some(RetText("Self", <<>>, ""))))

\* What make_builder with no arguments generates for the same structure
C20_NoArguments ==
    generate_items__(<<MacroArg("builder", DefaultText, <<>>)>>, [declared EXCEPT !.attrs = <<>>])

\* C20: `pub <StructName>Builder(..) -> Self` is accepted by the builder
\* directive parser and generates what make_builder with no arguments
\* generates, a builder whose build() returns the structure
C20_DefaultsEquivalent ==
    (DirectiveParsed /\ Written = C20_Explicit) =>
        /\ ~DirectiveRejected
        /\ Len(invocations) = 1 =>
              /\ gout.tokens = C20_NoArguments.tokens
              /\ gout.tokens[1].return_type = declared.ident

-----------------------------------------------------------------------------
(* Claims about constructors that return a Result *)

ResultCalled == pc = "ctor_called" /\ creturn = "Result"

\* The fields whose initializer fails for the arguments of the call
C13_Failing ==
    {i \in DOMAIN fields :
        /\ fields[i].default_init # None
        /\ Unwrap(fields[i].default_init).k = "try"
        /\ cargs[CHOOSE p \in DOMAIN cgen.params :
                    cgen.params[p].name = Unwrap(fields[i].default_init).n] = Unparsable}

\* The value of field i when its initializer succeeds
C13_FieldValue(i) ==
    LET e == C4_Expected(fields[i])
    IN IF e.k = "lit" THEN e.v
       ELSE cargs[CHOOSE p \in DOMAIN cgen.params : cgen.params[p].name = e.n]

\* C13: a call of a constructor returning Result<Self, E> returns the success
\* arm with every field assembled when no initializer fails; when one fails it
\* returns the failure arm, evaluates no initializer after the first failing
\* one and returns no value
C13_ResultArms ==
    ResultCalled =>
        IF C13_Failing = {}
        THEN /\ cinstance.arm = "Ok"
             /\ cinstance.value = [i \in DOMAIN fields |-> C13_FieldValue(i)]
        ELSE /\ cinstance.arm = "Err"
             /\ cinstance.evaluated = CHOOSE i \in C13_Failing : \A j \in C13_Failing : i <= j
             /\ cinstance.value = <<>>

C13_Witness ==
    /\ ResultCalled
    /\ Len(fields) = 2
    /\ C13_Failing = {1}
    /\ fields[2].default_init # None
    /\ Unwrap(fields[2].default_init).k = "try"
    /\ cinstance.arm = "Err"
    /\ cinstance.evaluated = 1

-----------------------------------------------------------------------------
(* Claims about the classification of builder fields *)

C16_FieldNamed(n) == fields[CHOOSE i \in DOMAIN fields : fields[i].ident = n]

\* The classification the parameter p is to receive
C16_ParamClass(p) ==
    IF p.kind = "Field"
    THEN [kind |-> IF p.overrid THEN "Override" ELSE "Required",
          name |-> p.name, ty |-> C16_FieldNamed(p.name).ty]
    ELSE [kind |-> IF p.optional THEN "Optional" ELSE "Required",
          name |-> p.name, ty |-> p.ty]

\* The pool fields that no parameter refers to
C16_Referenced == {bparams[k].name : k \in {j \in DOMAIN bparams : bparams[j].kind = "Field"}}
C16_InPool(f) == f.default_init = None /\ bname \notin DOMAIN f.custom_init
C16_Unreferenced(f) == C16_InPool(f) /\ f.ident \notin C16_Referenced

C16_Class(bf) == [kind |-> bf.kind, name |-> bf.name, ty |-> bf.ty]

\* C16: when make_builder_fields succeeds, the k-th builder field classifies
\* the k-th parameter (`field?` Override in or out of the pool, `field`
\* Required, `name: Option<T>` Optional of T, `name: T` Required), and the
\* pool fields no parameter refers to follow as Required
C16_Classification ==
    (pc # "builder" /\ bgen.status = "ok") =>
        LET rest == SelectSeq(fields, C16_Unreferenced)
        IN /\ Len(bgen.builder_fields) = Len(bparams) + Len(rest)
           /\ \A k \in DOMAIN bparams :
                C16_Class(bgen.builder_fields[k]) = C16_ParamClass(bparams[k])
           /\ \A k \in DOMAIN rest :
                C16_Class(bgen.builder_fields[Len(bparams) + k]) =
                    [kind |-> "Required", name |-> rest[k].ident, ty |-> rest[k].ty]

C16_Witness ==
    /\ pc = "builder_generated"
    /\ bgen.status = "ok"
    /\ \E k \in DOMAIN bparams :
          /\ bparams[k].kind = "Field"
          /\ bparams[k].overrid
          /\ ~C16_InPool(C16_FieldNamed(bparams[k].name))
          /\ bgen.builder_fields[k].kind = "Override"
    /\ \E i \in DOMAIN fields : C16_Unreferenced(fields[i])

-----------------------------------------------------------------------------
(* Claims about repeated runs *)

-----------------------------------------------------------------------------
(* Claims about structures without fields *)

C18_Rejected ==
    /\ gout.status = "err"
    /\ gout.message = UnitStructMessage
    /\ gout.tokens = <<>>
    /\ pc = "compile_error"

\* C18 as stated: a unit structure and a structure with an empty field list
\* are both reported as unsupported and nothing is generated
C18_NoFieldsRejected ==
    (Generated /\ declared.fields = <<>>) => C18_Rejected

\* C18: a unit structure is reported as unsupported and nothing is generated;
\* a structure with an empty field list, `struct S { }` or `struct S();`, is
\* accepted and every directive's item is generated
C18_UnitRejected ==
    Generated =>
        /\ declared.shape = "unit" => C18_Rejected
        /\ (declared.shape # "unit" /\ declared.fields = <<>>) =>
              /\ gout.status = "ok"
              /\ gout.field_infos = <<>>
              /\ Len(gout.tokens) = Len(GenArgs)
              /\ pc = "expanding"

C18_Witness ==
    /\ Generated
    /\ declared.shape = "named"
    /\ declared.fields = <<>>
    /\ gout.status = "ok"
    /\ \E i \in DOMAIN gout.tokens : gout.tokens[i].label = "constructor"

-----------------------------------------------------------------------------
(* Claims about marked doc comments *)

C19_Marked(a) == a.path = "doc" /\ Len(a.tokens) = 2 /\ StartsWithCaret(a.tokens[2].v)

C19_DirectiveAt == {d \in DOMAIN declared.attrs : declared.attrs[d].path \in DirectivePaths}

\* The marked doc comments that follow the directive at d with only doc
\* attributes in between
C19_Followers(d) ==
    {k \in (d + 1)..Len(declared.attrs) :
        /\ C19_Marked(declared.attrs[k])
        /\ \A j \in (d + 1)..(k - 1) : declared.attrs[j].path = "doc"}

C19_AllFollowers == UNION {C19_Followers(d) : d \in C19_DirectiveAt}

C19_Tagged == [k \in DOMAIN declared.attrs |-> [pos |-> k, attr |-> declared.attrs[k]]]

\* The texts of the followers of d, marker stripped, in the order written
C19_DocsOf(d) ==
    LET fs == SelectSeq(C19_Tagged, LAMBDA t : t.pos \in C19_Followers(d))
    IN [i \in DOMAIN fs |-> SubSeq(fs[i].attr.tokens[2].v, 3, Len(fs[i].attr.tokens[2].v))]

\* The doc attributes that are to stay on the structure
C19_Staying ==
    LET ks == SelectSeq(C19_Tagged, LAMBDA t : t.attr.path = "doc" /\ t.pos \notin C19_AllFollowers)
    IN [i \in DOMAIN ks |-> ks[i].attr]

\* The directives handed to generate_items__, over all its invocations
RECURSIVE C19_Concat(_)
C19_Concat(ls) == IF ls = <<>> THEN <<>> ELSE ls[1] \o C19_Concat(Tail(ls))

C19_Ordinal(d) == Cardinality({e \in C19_DirectiveAt : e <= d})

\* C19: once a structure whose marked doc comments all follow a directive with
\* only doc attributes in between is expanded, the documentation of every directive's item is the marked doc
\* comments that follow the directive with only doc attributes in between,
\* marker stripped and in the order written, and the doc attributes left on the
\* structure are all the others
C19_MarkedDocs ==
    (/\ ExpansionDone
     /\ \A k \in DOMAIN declared.attrs :
           C19_Marked(declared.attrs[k]) => k \in C19_AllFollowers)
        => /\ Len(C19_Concat(invocations)) = Cardinality(C19_DirectiveAt)
           /\ \A d \in C19_DirectiveAt :
                 C19_Concat(invocations)[C19_Ordinal(d)].documentation = C19_DocsOf(d)
           /\ SelectSeq(struct_def.attrs, LAMBDA a : a.path = "doc") = C19_Staying

-----------------------------------------------------------------------------
(* Claims about annotated fields named in the parameter list *)

\* The directive's parameter list is the one reference `b`, the annotated field
C21_Referenced == Written.tokens.params = Some(<<ParamText("ident", "b", "")>>)

\* The directive's parameter list names no field: absent, `()`, `(..)` or a
\* custom parameter
C21_Unreferenced ==
    \/ Written.tokens.params = None
    \/ \A k \in DOMAIN Unwrap(Written.tokens.params) :
          Unwrap(Written.tokens.params)[k].tok \notin {"ident", "ident?"}

\* The parameters (constructor) or the setters (builder) of the generated item
C21_Inputs ==
    IF gout.tokens[1].label = "constructor" THEN gout.tokens[1].def.params
    ELSE gout.tokens[1].def.builder_fields

\* C21: the field b, annotated with a value (default or keyed to the
\* directive), is no parameter and no setter of the item when the parameter
\* list does not name it; when the list names it the item is generated, b is a
\* parameter of b's type (constructor) or a Required setter (builder), and b is
\* still initialized by the annotation's expression
C21_AnnotatedFieldParameter ==
    Len(invocations) = 1 =>
        /\ C21_Unreferenced =>
              (gout.status = "ok" => Count(C21_Inputs, "b") = 0)
        /\ C21_Referenced =>
              /\ gout.status = "ok"
              /\ Count(C21_Inputs, "b") = 1
              /\ \A k \in DOMAIN C21_Inputs :
                    C21_Inputs[k].name = "b" =>
                        /\ C21_Inputs[k].ty = "u8"
                        /\ gout.tokens[1].label = "builder" => C21_Inputs[k].kind = "Required"
              /\ gout.tokens[1].def.initializers[2].init = Lit(7)
              /\ gout.tokens[1].label = "builder" => ~gout.tokens[1].def.initializers[2].unwrap_or

C21_Witness ==
    /\ Len(invocations) = 1
    /\ C21_Referenced
    /\ gout.status = "ok"
    /\ gout.tokens[1].label = "constructor"
    /\ DOMAIN gout.field_infos[2].custom_init # {}
    /\ Count(gout.tokens[1].def.params, "b") = 1

-----------------------------------------------------------------------------
(* Claims about the order of setter calls *)

\* build() on two builders gives the same: it exists on both or on neither,
\* and where it exists it returns the same
C22_SameBuild(b1, b2) ==
    /\ BuildAvailable(bgen, b1) <=> BuildAvailable(bgen, b2)
    /\ BuildAvailable(bgen, b1) => BuildBody(bgen, b1) = BuildBody(bgen, b2)

\* C22: from every state of a generated builder, the setters of two distinct
\* fields called in either order lead to builders with equal build() results,
\* and a setter called twice leaves what its last call alone leaves
C22_SettersCommute ==
    pc = "building" =>
        \A k1, k2 \in DOMAIN bgen.builder_fields : \A v1, v2 \in Values :
            /\ k1 # k2 =>
                  C22_SameBuild(ApplySetter(bgen, ApplySetter(bgen, builder, k1, v1), k2, v2),
                                ApplySetter(bgen, ApplySetter(bgen, builder, k2, v2), k1, v1))
            /\ C22_SameBuild(ApplySetter(bgen, ApplySetter(bgen, builder, k1, v1), k1, v2),
                             ApplySetter(bgen, builder, k1, v2))

C22_Witness ==
    /\ pc = "built"
    /\ built.status = "ok"
    /\ \E k1, k2 \in DOMAIN bgen.builder_fields :
          /\ bgen.builder_fields[k1].kind = "Required"
          /\ bgen.builder_fields[k2].kind = "Override"
          /\ given[bgen.builder_fields[k1].name] # None
          /\ given[bgen.builder_fields[k2].name] # None

-----------------------------------------------------------------------------
(* Claims about presence markers *)

\* C23: in every builder make_builder_fields accepts, the presence markers of
\* two different Required fields are different
C23_DistinctMarkers ==
    (pc # "builder" /\ bgen.status = "ok") =>
        \A i, j \in DOMAIN bgen.builder_fields :
            (/\ i # j
             /\ bgen.builder_fields[i].kind = "Required"
             /\ bgen.builder_fields[j].kind = "Required")
                => bgen.builder_fields[i].status_param # bgen.builder_fields[j].status_param

-----------------------------------------------------------------------------
(* Claims about the generic parameters of the builder type *)

\* The generic parameters the structure itself may have
HostGenerics == {<<>>, <<"T">>, <<"'a", "T">>}

\* The markers of the parameters classified Required, in written order
C24_ParamMarkers ==
    LET req == SelectSeq(bparams, LAMBDA p : C16_ParamClass(p).kind = "Required")
    IN [i \in DOMAIN req |->
           StatusParam(IF req[i].kind = "Field" THEN C16_FieldNamed(req[i].name).ident
                       ELSE req[i].name)]

\* The markers of the pool fields no parameter refers to, in declaration order
C24_PoolMarkers ==
    LET rest == SelectSeq(fields, C16_Unreferenced)
    IN [i \in DOMAIN rest |-> StatusParam(rest[i].ident)]

\* C24: the generic parameters of the builder type are the structure's own,
\* then the markers of the Required fields that come from the parameter list
\* in written order, then those of the unreferenced pool fields in declaration
\* order: one per Required field, none for an Optional or Override field
C24_GenericParams ==
    (pc # "builder" /\ bgen.status = "ok") =>
        /\ \A g \in HostGenerics :
              AllGenericParams(g, bgen.status_params) = g \o C24_ParamMarkers \o C24_PoolMarkers
        /\ bgen.status_params =
              LET req == SelectSeq(bgen.builder_fields, LAMBDA f : f.kind = "Required")
              IN [i \in DOMAIN req |-> req[i].status_param]

C24_Witness ==
    /\ pc = "builder_generated"
    /\ bgen.status = "ok"
    /\ Len(C24_ParamMarkers) = 1
    /\ Len(C24_PoolMarkers) = 1
    /\ \E k \in DOMAIN bgen.builder_fields : bgen.builder_fields[k].kind # "Required"

-----------------------------------------------------------------------------
(* Claims about the value attributes of a field *)

C25_NotValue(a) == a.path # "value"

\* C25: after generate_items__ succeeds, every field of the emitted structure
\* has its name, its type and its attributes as written, less the `value`
\* attributes, the others in their written order
C25_ValueAttrsStripped ==
    (Generated /\ gout.status = "ok") =>
        /\ Len(gout.struct_def.fields) = Len(declared.fields)
        /\ struct_def.fields = gout.struct_def.fields
        /\ \A i \in DOMAIN declared.fields :
              /\ gout.struct_def.fields[i].ident = declared.fields[i].ident
              /\ gout.struct_def.fields[i].ty = declared.fields[i].ty
              /\ gout.struct_def.fields[i].attrs = SelectSeq(declared.fields[i].attrs, C25_NotValue)

C25_Witness ==
    /\ Generated
    /\ gout.status = "ok"
    /\ \E i \in DOMAIN declared.fields :
          /\ Len(declared.fields[i].attrs) = 2
          /\ declared.fields[i].attrs[1].path = "value"
          /\ declared.fields[i].attrs[2].path = "value"
    /\ \E i \in DOMAIN declared.fields :
          /\ Len(declared.fields[i].attrs) = 2
          /\ declared.fields[i].attrs[1].path = "value"
          /\ declared.fields[i].attrs[2].path = "allow"
          /\ gout.struct_def.fields[i].attrs = <<Attr("allow", <<>>)>>

C26_IsDefault(a) == a.path = "value" /\ a.tokens.for_item = None
C26_IsKeyed(a) == a.path = "value" /\ a.tokens.for_item # None

\* The expression of the last attribute of a sequence of value attributes
C26_Last(as) == IF as = <<>> THEN None ELSE Some(as[Len(as)].tokens.expr)

\* C26: after generate_items__ succeeds, a field's default initializer is the
\* expression of its last `value` attribute without `for` (none when it has
\* none), and its overrides are those of its `value ... for` attributes
C26_LastDefaultWins ==
    (Generated /\ gout.status = "ok") =>
        \A i \in DOMAIN declared.fields :
            LET attrs == declared.fields[i].attrs
                keyed == SelectSeq(attrs, C26_IsKeyed)
            IN /\ gout.field_infos[i].default_init = C26_Last(SelectSeq(attrs, C26_IsDefault))
               /\ DOMAIN gout.field_infos[i].custom_init =
                     {Unwrap(keyed[k].tokens.for_item) : k \in DOMAIN keyed}
               /\ \A k \in DOMAIN keyed :
                     gout.field_infos[i].custom_init[Unwrap(keyed[k].tokens.for_item)] = Lit(9)

C26_Witness ==
    /\ Generated
    /\ gout.status = "ok"
    /\ \E i \in DOMAIN declared.fields :
          /\ declared.fields[i].attrs = <<ValueAttr(Lit(7), None), ValueAttr(Lit(8), None)>>
          /\ gout.field_infos[i].default_init = Some(Lit(8))
    /\ \E i \in DOMAIN declared.fields :
          /\ declared.fields[i].attrs = <<ValueAttr(Lit(9), Some("new")), ValueAttr(Lit(7), None)>>
          /\ DOMAIN gout.field_infos[i].custom_init = {"new"}

-----------------------------------------------------------------------------
(* Claims about BuilderFieldContainer *)

C27_RequiredSlots == {k \in DOMAIN bgen.builder_fields : bgen.builder_fields[k].kind = "Required"}

\* A container marked Present holds a value
C27_Sound(c) == c.marker_ = "Present" => ~ContainerIntoValuePanics(c)

\* C27: every container a builder holds, made by missing() and present(v), and
\* every container set(v) makes of it, holds a value when its marker is
\* Present; a builder on which build() exists has every Required container
\* Present, and build() extracts every Required field without failing
C27_PresentHoldsValue ==
    /\ pc \in {"building", "built"} =>
          /\ \A k \in C27_RequiredSlots :
                /\ C27_Sound(builder.slots[k])
                /\ \A v \in Values :
                      /\ ContainerSet(builder.slots[k], v).marker_ = "Present"
                      /\ C27_Sound(ContainerSet(builder.slots[k], v))
          /\ BuildAvailable(bgen, builder) =>
                /\ \A k \in C27_RequiredSlots : builder.slots[k].marker_ = "Present"
                /\ ~BuildPanics(bgen, builder)
    /\ pc = "built" => built.status = "ok"

C27_Witness ==
    /\ pc = "built"
    /\ built.status = "ok"
    /\ Cardinality(C27_RequiredSlots) = 2
    /\ \A k \in C27_RequiredSlots : builder.slots[k].data # None

-----------------------------------------------------------------------------
(* Claims about failures of generate_items__ *)

\* The directives of the set whose synthesis fails, and the fields with a
\* `value ... for` that names no item
C28_FailingDirectives == {i \in DOMAIN GenArgs : GenArgs[i].content.params = FailingParams}
C28_UnresolvedFields ==
    {i \in DOMAIN declared.fields :
        \E k \in DOMAIN declared.fields[i].attrs :
            /\ declared.fields[i].attrs[k].path = "value"
            /\ declared.fields[i].attrs[k].tokens.for_item = Some("nope")}

\* C28: when a directive of the set fails, whatever its position, or a field's
\* `value ... for` does not resolve, the output of generate_items__ is the
\* diagnostic alone: no structure, no item of another directive; otherwise the
\* structure and one item per directive are emitted
C28_DiagnosticOnly ==
    Generated =>
        IF C28_FailingDirectives # {} \/ C28_UnresolvedFields # {}
        THEN /\ gout.status = "err"
             /\ gout.tokens = <<>>
             /\ "struct_def" \notin DOMAIN gout
             /\ pc = "compile_error"
        ELSE /\ gout.status = "ok"
             /\ Len(gout.tokens) = Len(GenArgs)

C28_Witness ==
    /\ Generated
    /\ Len(GenArgs) = 2
    /\ C28_FailingDirectives = {2}
    /\ GenArgs[1].label = "builder" /\ GenArgs[2].label = "constructor"
    /\ C28_UnresolvedFields = {}
    /\ gout.status = "err"
    /\ gout.tokens = <<>>

-----------------------------------------------------------------------------
(* Claims about the insertion index *)

\* The state of make_constructor_args when its loop over the written
\* parameters has ended
C29_AfterLoop == ArgsLoop(ArgsStart(cname, cparams, fields), cparams, fields, 1)

\* The number of parameters written before the last ellipsis, ellipses not
\* counted; the number of parameters written when there is no ellipsis
C29_LastEllipsis ==
    IF C6_EllipsisAt = 0 THEN Len(cparams)
    ELSE Cardinality({i \in 1..(C6_EllipsisAt - 1) : cparams[i].kind # "Ellipses"})

\* C29: for every written parameter list that names only existing fields, the
\* index at which the remaining pool fields are inserted is at most the length
\* of the parameter vector, no insertion is out of bounds, and the remaining
\* fields are inserted once, together, at the last ellipsis (at the end when
\* there is none)
C29_InsertionInBounds ==
    CtorGenerated =>
        /\ cgen.status # "panic"
        /\ cgen.status = "ok" =>
              LET st == C29_AfterLoop
                  at == st.remaining_fields_insertion_index
                  n == Len(st.remaining_fields)
              IN /\ at <= Len(st.param_impls)
                 /\ at = C29_LastEllipsis
                 /\ Len(cgen.params) = Len(st.param_impls) + n
                 /\ SubSeq(cgen.params, at + 1, at + n) =
                       [i \in 1..n |-> ParamImpl(st.remaining_fields[i].ident,
                                                 st.remaining_fields[i].ty)]
                 /\ SubSeq(cgen.params, 1, at) \o SubSeq(cgen.params, at + n + 1, Len(cgen.params))
                       = st.param_impls

C29_Witness ==
    /\ CtorGenerated
    /\ cgen.status = "ok"
    /\ Len(cparams) = 3
    /\ cparams[1].kind = "Ellipses" /\ cparams[2].kind = "Custom" /\ cparams[3].kind = "Ellipses"
    /\ Len(C29_AfterLoop.remaining_fields) = 2
    /\ cgen.params[1].name = cparams[2].name
    /\ Len(cgen.params) = 3

-----------------------------------------------------------------------------
(* Claims about the removals of make_item *)

\* A directive is about to be expanded
C30_DirectiveNext ==
    /\ pc = "expanding"
    /\ FirstMacro(struct_def.attrs) > 0
    /\ Invoked.path \in DirectivePaths

C30_Label == IF Invoked.path = "make_constructor" THEN "constructor" ELSE "builder"

\* What make_item returns for the directive, and its loop over the attributes
C30_Out ==
    IF Invoked.path = "make_constructor" THEN make_constructor(Invoked.tokens, ItemInput)
    ELSE make_builder(Invoked.tokens, ItemInput)
C30_Loop ==
    ItemLoop([status |-> "ok", attrs |-> ItemInput.attrs, found |-> FALSE,
              consume_doc |-> TRUE, user_documentation |-> <<>>,
              condemned_indexes |-> <<>>],
             1, MacroArg(C30_Label, Invoked.tokens, <<>>))

C30_Condemned == {C30_Loop.condemned_indexes[i] : i \in DOMAIN C30_Loop.condemned_indexes}

\* The attributes make_item received, less the consumed doc comments and less
\* a generate_items__ attribute
C30_Kept ==
    LET tagged == [k \in DOMAIN ItemInput.attrs |-> [pos |-> k, attr |-> ItemInput.attrs[k]]]
        kept == SelectSeq(tagged, LAMBDA t : t.pos \notin C30_Condemned /\ t.attr.path # GenPath)
    IN [i \in DOMAIN kept |-> kept[i].attr]

C30_NotGenerate(a) == a.path # GenPath

\* C30: whenever make_item succeeds, every index it recorded for removal is
\* that of a marked doc comment and lies before the generate_items__ attribute,
\* the one found or the one inserted; the attributes returned are those
\* received less exactly the consumed doc comments, with one generate_items__
\* attribute among them
C30_RemovalsExact ==
    (C30_DirectiveNext /\ C30_Out.status = "ok") =>
        /\ \A c \in C30_Condemned :
              /\ C19_Marked(ItemInput.attrs[c])
              /\ IF C30_Loop.found
                 THEN \E g \in DOMAIN ItemInput.attrs : ItemInput.attrs[g].path = GenPath /\ c < g
                 ELSE c < InsertAtIndex(ItemInput.attrs) + 1
        /\ SelectSeq(C30_Out.item.attrs, C30_NotGenerate) = C30_Kept
        /\ Cardinality({i \in DOMAIN C30_Out.item.attrs : C30_Out.item.attrs[i].path = GenPath}) = 1

\* make_item has consumed a doc comment and inserted the attribute before a derive
C30_Witness ==
    /\ Expanding(GenPath)
    /\ invocations = <<>>
    /\ Len(Invoked.tokens) = 1
    /\ Invoked.tokens[1].documentation # <<>>
    /\ \E i \in DOMAIN ItemInput.attrs : ItemInput.attrs[i].path = "derive"
    /\ \A i \in DOMAIN ItemInput.attrs : ~C19_Marked(ItemInput.attrs[i])
    /\ Len(struct_def.attrs) = Len(declared.attrs) - 1

=============================================================================
